---- MODULE Spec2Model ----
(***************************************************************************)
(* Model of the /ws/transcription pipeline of vox-canvas                    *)
(* (backend/app/main.py, backend/app/services/stt.py).                      *)
(*                                                                         *)
(* One websocket connection is modelled in full: the handler               *)
(* transcription_ws (adapter construction, ingest loop, except/finally),   *)
(* the task forward_transcripts together with the adapter generator it     *)
(* drives and queue_stream, and the task send_heartbeat.  The session      *)
(* transcript is the only state a connection shares with the rest of the   *)
(* process; what other connections and the HTTP layer do to it is the      *)
(* actions OtherConnectionAppend and SessionReset.                         *)
(*                                                                         *)
(* A step of the model is what one asyncio task does between two           *)
(* suspension points.  Outcomes of calls into libraries (websocket         *)
(* receive/send/ping, the recognizers) are drawn from the outcomes the     *)
(* code itself tells apart in its except clauses and conditions.           *)
(***************************************************************************)
EXTENDS Naturals, Sequences, FiniteSets, TLC

\* ------------------------------------------------------------------ bounds
MaxChunks == 9       \* data messages the client sends on the connection
MaxEvents == 2       \* results a recognizer backend (Vosk, Google) reports in one run
MaxResults == 1      \* results in one response of the Google backend
MaxSessionOps == 1   \* what the rest of the process does to the session meanwhile
MaxWords == 3        \* words in a recognizer result given to _average_confidence
MaxRequests == 2      \* API requests in flight at once
MaxCards == 2         \* cards created between two resets
MaxFragments == 2     \* fragments API-side connections register
MaxRetries == 3       \* largest max_retries an OpenAICardComposer is built with
MaxStubChunks == 20  \* chunks handed to a stub adapter that is run on its own

\* ------------------------------------------------------- program constants
QueueMaxSize == 8    \* asyncio.Queue(maxsize=8)
PartialEvery == 3    \* chunk_index % 3 == 0
FinalEvery == 9      \* chunk_index % 9 == 0
InternalError == 1011
DefaultConfidence == 90  \* 0.9, confidences are in hundredths
StubPartialConfidence == 85
StubFinalConfidence == 95

Sentinel == 0        \* the None put on the queue at teardown
NoConf == 1000       \* confidence None
NoCode == 0          \* no close frame sent
DefaultSampleRate == 16000   \* os.getenv("VOX_GOOGLE_SAMPLE_RATE", "16000")
SelectedRate == 48000        \* self._config = self._configs[48000]

PARTIAL == "partial"
FINAL == "final"

\* number of words of each of StubAdapter.demo_phrases
PhraseWords == <<5, 4, 4, 7, 8>>
NumPhrases == Len(PhraseWords)

Engines == {"google", "GOOGLE", "vosk", "Vosk", "whisper"}

VARIABLES
    config,        \* settings.stt_mode and what create_stt_adapter finds in the environment
    pc,            \* position of the handler transcription_ws
    exit_reason,   \* how the ingest loop was left
    adapter,       \* the adapter create_stt_adapter returned
    audio_queue,   \* asyncio.Queue[bytes | None], chunks are their chunk_seq
    chunk_seq,     \* chunk_seq of the ingest loop
    ingest,        \* the message the ingest loop read last, and the data_bytes made of it
    pending,       \* the chunk a suspended audio_queue.put is holding
    sentinels,     \* how many times None was put on the queue
    close_code,    \* code of the close frame the handler sent
    client_state,  \* websocket.client_state
    fwd,           \* position of the task forward_transcripts
    apc,           \* position of the adapter generator adapter.run(...)
    chunk_index,   \* StubAdapter.run: chunk_index
    phrase_index,  \* StubAdapter.phrase_index
    engine_events, \* results with text the recognizer backend has reported in this run
    received,      \* chunks queue_stream yielded to the adapter
    greq,          \* GoogleSpeechAdapter.run: position of request_generator
    requests,      \* GoogleSpeechAdapter.run: requests handed to the backend
    gresults,      \* GoogleSpeechAdapter.run: results of the response still to visit
    recog,         \* VoskAdapter.run: the recognizer's last answer
    cur,           \* the event forward_transcripts is sending
    emitted,       \* events the adapter yielded, in order
    sent,          \* payloads delivered to the client, in order
    send_failed,   \* ids of the events whose send_json raised RuntimeError
    hb,            \* position of the task send_heartbeat
    transcript,    \* SessionManager.transcript
    appended,      \* every fragment this connection registered, in order
    others,        \* fragments other connections registered
    resets,        \* session resets done
    cards,         \* SessionManager.cards
    system_prompt, \* SessionManager.system_prompt
    lock,          \* SessionManager.lock: the request holding it, 0 when free
    running,       \* the request the event loop is running, 0 for none
    reqs,          \* the API requests: handler, position, locals, response
    snap,          \* what the last SessionManager.snapshot returned
    compose,       \* OpenAICardComposer.compose: max_retries, attempt, position
    logged         \* names of the events passed to _log_event

vars == <<config, pc, exit_reason, adapter, audio_queue, chunk_seq, ingest, pending, sentinels, close_code,
          client_state, fwd, apc, chunk_index, phrase_index, engine_events,
          received, greq, requests, gresults, recog, cur, emitted, sent, send_failed, hb,
          transcript, appended, others, resets, cards, system_prompt, lock, running, reqs,
          snap, compose, logged>>

handlerVars == <<config, pc, exit_reason, adapter, chunk_seq, ingest, pending, sentinels, close_code,
                 client_state>>
adapterVars == <<apc, chunk_index, phrase_index, engine_events, received, greq,
                 requests, gresults, recog>>
forwardVars == <<fwd, cur, emitted, sent, send_failed>>
heartbeatVars == <<hb>>
apiVars == <<cards, system_prompt, lock, running, reqs, snap, compose>>
sessionVars == <<transcript, appended, others, resets, apiVars>>

\* ------------------------------------------------------------- messages
\* A value of a message is None, bytes or text; bytes are their byte values,
\* text is its code points.
None == [kind |-> "none", val |-> <<>>]

Bytes(val) == [kind |-> "bytes", val |-> val]

Text(val) == [kind |-> "text", val |-> val]

\* What websocket.receive() returns: a binary frame, empty or not, a text frame,
\* empty or not (its text "a\u00e9"), or a message with neither.
Messages ==
    {[bytes |-> b, text |-> t] :
        <<b, t>> \in {<<None, None>>, <<Bytes(<<>>), None>>, <<Bytes(<<1, 2>>), None>>,
                      <<None, Text(<<>>)>>, <<None, Text(<<97, 233>>)>>}}

\* The ingest loop has read no message yet.
NoIngest == [message |-> [bytes |-> None, text |-> None], data_bytes |-> None]

\* Python's truth value of None, bytes and str.
Truthy(x) == x.val # <<>>

\* a or b
Or(a, b) == IF Truthy(a) THEN a ELSE b

DataBytesOnly(message) == message.bytes

\* Line 552: data = message.get("bytes") or message.get("text").
Data(message) == Or(message.bytes, message.text)

\* str.encode("utf-8") of one code point below 2048.
Utf8(cp) == IF cp < 128 THEN <<cp>> ELSE <<192 + (cp \div 64), 128 + (cp % 64)>>

RECURSIVE Encode(_)
Encode(cps) == IF cps = <<>> THEN <<>> ELSE Utf8(Head(cps)) \o Encode(Tail(cps))

\* Lines 557-560: data_bytes.
DataBytes(data) == IF data.kind = "bytes" THEN data ELSE Bytes(Encode(data.val))

\* ------------------------------------------------------------- the session
Requests == 1..MaxRequests

\* A request slot no handler is running in; result holds the counts a method
\* has returned to the handler, if any.
IdleRequest == [op |-> "none", step |-> 0, pc |-> "idle", arg |-> 0, card |-> 0, result |-> <<>>]

NoSnapshot == [taken |-> FALSE, transcript |-> <<>>, cards |-> <<>>, epoch |-> 0]

\* No composer has been called.
NoCompose == [max_retries |-> 0, attempt |-> 0, pc |-> "idle", calls |-> <<>>, out |-> "none"]

\* SessionManager(logger), lines 46-54, and the requests and the composer at rest.
SessionCreated ==
    /\ cards = <<>>
    /\ system_prompt = 0
    /\ lock = 0
    /\ running = 0
    /\ reqs = [r \in Requests |-> IdleRequest]
    /\ snap = NoSnapshot
    /\ compose = NoCompose

\* VoskAdapter.run: no recognizer call has answered yet. An answer is the call
\* made, whether its text is non-empty after strip() (1) or not (0), and its
\* word list, each word being its "conf" in hundredths or NoConf without one.
NoAnswer == [call |-> "none", text |-> 0, words |-> <<>>]

NoEvent ==
    [type |-> "none", id |-> 0, phrase |-> 0, words |-> 0, conf |-> NoConf, chunks |-> 0,
     completed |-> FALSE]

Min(a, b) == IF a < b THEN a ELSE b

\* _log_event: the log is kept as the set of the event names recorded so far.
Log(names) == logged' = logged \cup names

\* The state of a connection after websocket.accept() (lines 478-484).
Accepted ==
    /\ pc = "accepted"
    /\ exit_reason = "none"
    /\ adapter = "none"
    /\ audio_queue = <<>>
    /\ chunk_seq = 0
    /\ ingest = NoIngest
    /\ pending = 0
    /\ sentinels = 0
    /\ close_code = NoCode
    /\ client_state = "CONNECTED"
    /\ fwd = "idle"
    /\ apc = "idle"
    /\ chunk_index = 0
    /\ phrase_index = 0
    /\ engine_events = 0
    /\ received = <<>>
    /\ greq = "idle"
    /\ requests = <<>>
    /\ gresults = <<>>
    /\ recog = NoAnswer
    /\ cur = NoEvent
    /\ emitted = <<>>
    /\ sent = <<>>
    /\ send_failed = {}
    /\ hb = "idle"
    /\ transcript = <<>>
    /\ appended = <<>>
    /\ others = 0
    /\ resets = 0
    /\ SessionCreated
    /\ logged = {"ws.open"}

\* ------------------------------------------------------ create_stt_adapter
\* engine.lower()
Lower(engine) ==
    CASE engine = "Vosk" -> "vosk"
      [] engine = "GOOGLE" -> "google"
      [] OTHER -> engine

create_stt_adapterStubsUnknown(engine, force_stub, speech_ok, google_ctor_ok, vosk_ok, vosk_ctor_ok) ==
    LET engine_normalized == Lower(engine) IN
    IF engine_normalized = "google" /\ ~force_stub /\ speech_ok
    THEN IF google_ctor_ok THEN "google" ELSE "stub"
    ELSE IF engine_normalized = "vosk" /\ ~force_stub /\ vosk_ok
    THEN IF vosk_ctor_ok THEN "vosk" ELSE "RuntimeError"
    ELSE "stub"

create_stt_adapterIgnoresForce(engine, force_stub, speech_ok, google_ctor_ok, vosk_ok, vosk_ctor_ok) ==
    LET engine_normalized == Lower(engine) IN
    IF engine_normalized = "google" /\ speech_ok
    THEN IF google_ctor_ok THEN "google" ELSE "stub"
    ELSE IF engine_normalized = "vosk" /\ vosk_ok
    THEN IF vosk_ctor_ok THEN "vosk" ELSE "RuntimeError"
    ELSE IF engine_normalized \in {"google", "vosk"}
    THEN "stub"
    ELSE "ValueError"

\* What create_stt_adapter returns or raises.  speech_ok, vosk_ok: the optional
\* imports succeeded; google_ctor_ok: GoogleSpeechAdapter(...) did not raise;
\* vosk_ctor_ok: VoskAdapter(...) did not raise (it raises RuntimeError when no
\* model path is configured).
create_stt_adapter(engine, force_stub, speech_ok, google_ctor_ok, vosk_ok, vosk_ctor_ok) ==
    LET engine_normalized == Lower(engine) IN
    IF engine_normalized = "google" /\ ~force_stub /\ speech_ok
    THEN IF google_ctor_ok THEN "google" ELSE "stub"
    ELSE IF engine_normalized = "vosk" /\ ~force_stub /\ vosk_ok
    THEN IF vosk_ctor_ok THEN "vosk" ELSE "RuntimeError"
    ELSE IF engine_normalized \in {"google", "vosk"}
    THEN "stub"
    ELSE "ValueError"

\* What the engine name is and what create_stt_adapter finds: VOX_STT_FORCE_STUB,
\* the optional imports, and whether the constructors raise.
\* The sample rates GoogleSpeechAdapter builds a configuration for (stt.py 161).
SampleRates == {16000, 44100, 48000}

Configs ==
    [engine : Engines, force_stub : BOOLEAN, speech_ok : BOOLEAN,
     google_ctor_ok : BOOLEAN, vosk_ok : BOOLEAN, vosk_ctor_ok : BOOLEAN,
     sample_rate : SampleRates]

Construct(c) ==
    create_stt_adapter(c.engine, c.force_stub, c.speech_ok, c.google_ctor_ok,
                       c.vosk_ok, c.vosk_ctor_ok)

Constructed == {Construct(c) : c \in Configs}

\* The deployments the streaming pipeline is followed under, one for each outcome
\* of create_stt_adapter: Google, the stub forced, Vosk, Vosk without a model
\* path, an engine that is not supported.
Deployment(engine, force_stub, ok) ==
    [engine |-> engine, force_stub |-> force_stub, speech_ok |-> ok,
     google_ctor_ok |-> ok, vosk_ok |-> TRUE, vosk_ctor_ok |-> ok,
     sample_rate |-> DefaultSampleRate]

Deployments ==
    {Deployment("google", FALSE, TRUE), Deployment("GOOGLE", TRUE, TRUE),
     Deployment("Vosk", FALSE, TRUE), Deployment("vosk", FALSE, FALSE),
     Deployment("whisper", FALSE, TRUE)}

TypeOK ==
    /\ pc \in {"accepted", "receive", "put", "closing", "td_put", "td_hb", "td_fwd",
               "returned", "raised"}
    /\ exit_reason \in {"none", "config", "disconnect", "error"}
    /\ config \in Configs
    /\ adapter \in {"none"} \cup (Constructed \ {"ValueError", "RuntimeError"})
    /\ Len(audio_queue) <= QueueMaxSize
    /\ chunk_seq \in 0..MaxChunks
    /\ close_code \in {NoCode, InternalError}
    /\ client_state \in {"CONNECTED", "DISCONNECTED"}
    /\ fwd \in {"idle", "next", "send", "done", "failed"}
    /\ hb \in {"idle", "created", "done", "cancelled"}
    /\ recog.call \in {"none", "Result", "PartialResult", "FinalResult"}
    /\ recog.text \in 0..1
    /\ Len(recog.words) <= MaxWords

Init == config \in Deployments /\ Accepted

\* --------------------------------------------------------- transcription_ws
\* Lines 486-547: the adapter is built, the queue and the two tasks are created.
ConstructOk ==
    /\ pc = "accepted"
    /\ Construct(config) \notin {"ValueError", "RuntimeError"}
    /\ adapter' = Construct(config)
    /\ apc' = IF Construct(config) = "google" THEN "start" ELSE "get"
    /\ pc' = "receive"
    /\ fwd' = "next"
    /\ hb' = "created"
    /\ UNCHANGED <<config, ingest, exit_reason, audio_queue, chunk_seq, pending, sentinels, close_code,
                   client_state, chunk_index, phrase_index, engine_events, received,
                   greq, requests, gresults, recog, cur, emitted, sent, send_failed, logged>>
    /\ UNCHANGED sessionVars

\* Lines 488-491: ValueError is logged, the socket closed with 1011, the handler returns.
ConstructValueError ==
    /\ pc = "accepted"
    /\ Construct(config) = "ValueError"
    /\ Log({"stt.error"})
    /\ close_code' = InternalError
    /\ exit_reason' = "config"
    /\ pc' = "returned"
    /\ UNCHANGED <<adapter, config, ingest, audio_queue, chunk_seq, pending, sentinels, client_state>>
    /\ UNCHANGED <<adapterVars, forwardVars, heartbeatVars, sessionVars>>

\* Line 487: an exception that is not a ValueError leaves the handler.
ConstructRuntimeError ==
    /\ pc = "accepted"
    /\ Construct(config) = "RuntimeError"
    /\ exit_reason' = "config"
    /\ pc' = "raised"
    /\ UNCHANGED <<adapter, config, ingest, audio_queue, chunk_seq, pending, sentinels, close_code, client_state, logged>>
    /\ UNCHANGED <<adapterVars, forwardVars, heartbeatVars, sessionVars>>

ReceiveDataUnbounded ==
    /\ pc = "receive"
    /\ chunk_seq < MaxChunks
    /\ chunk_seq' = chunk_seq + 1
    /\ Log({"audio.chunk_received"})
    /\ audio_queue' = Append(audio_queue, chunk_seq + 1)
    /\ UNCHANGED <<config, ingest, pc, pending, exit_reason, adapter, sentinels, close_code, client_state>>
    /\ UNCHANGED <<adapterVars, forwardVars, heartbeatVars, sessionVars>>

\* Lines 552-572: a message with data; audio_queue.put suspends when the queue is full.
ReceiveData ==
    /\ pc = "receive"
    /\ chunk_seq < MaxChunks
    /\ chunk_seq' = chunk_seq + 1
    /\ Log({"audio.chunk_received"})
    /\ IF Len(audio_queue) < QueueMaxSize
       THEN /\ audio_queue' = Append(audio_queue, chunk_seq + 1)
            /\ UNCHANGED <<pc, pending>>
       ELSE /\ pc' = "put"
            /\ pending' = chunk_seq + 1
            /\ UNCHANGED audio_queue
    /\ UNCHANGED <<exit_reason, adapter, config, ingest, sentinels, close_code, client_state>>
    /\ UNCHANGED <<adapterVars, forwardVars, heartbeatVars, sessionVars>>

\* Line 572: the suspended put completes once the queue has a free slot.
PutResume ==
    /\ pc = "put"
    /\ Len(audio_queue) < QueueMaxSize
    /\ audio_queue' = Append(audio_queue, pending)
    /\ pending' = 0
    /\ pc' = "receive"
    /\ UNCHANGED <<exit_reason, adapter, config, ingest, chunk_seq, sentinels, close_code, client_state, logged>>
    /\ UNCHANGED <<adapterVars, forwardVars, heartbeatVars, sessionVars>>

\* Lines 553-556: a message with neither bytes nor text.
ReceiveNull ==
    /\ pc = "receive"
    /\ UNCHANGED <<handlerVars, audio_queue, logged>>
    /\ UNCHANGED <<adapterVars, forwardVars, heartbeatVars, sessionVars>>

ReceiveDisconnectAsError ==
    /\ pc = "receive"
    /\ Log({"ws.close"})
    /\ exit_reason' = "disconnect"
    /\ client_state' = "DISCONNECTED"
    /\ pc' = "closing"
    /\ UNCHANGED <<adapter, config, ingest, audio_queue, chunk_seq, pending, sentinels, close_code>>
    /\ UNCHANGED <<adapterVars, forwardVars, heartbeatVars, sessionVars>>

\* Lines 573-574: WebSocketDisconnect.
ReceiveDisconnect ==
    /\ pc = "receive"
    /\ Log({"ws.close"})
    /\ exit_reason' = "disconnect"
    /\ client_state' = "DISCONNECTED"
    /\ pc' = "td_put"
    /\ UNCHANGED <<adapter, config, ingest, audio_queue, chunk_seq, pending, sentinels, close_code>>
    /\ UNCHANGED <<adapterVars, forwardVars, heartbeatVars, sessionVars>>

\* Lines 575-576: any other exception of the ingest loop.
ReceiveError ==
    /\ pc = "receive"
    /\ Log({"ws.error"})
    /\ exit_reason' = "error"
    /\ pc' = "closing"
    /\ UNCHANGED <<adapter, config, ingest, audio_queue, chunk_seq, pending, sentinels, close_code, client_state>>
    /\ UNCHANGED <<adapterVars, forwardVars, heartbeatVars, sessionVars>>

CloseOnErrorNoCode ==
    /\ pc = "closing"
    /\ pc' = "td_put"
    /\ UNCHANGED <<exit_reason, adapter, config, ingest, audio_queue, chunk_seq, pending, sentinels, close_code,
                   client_state, logged>>
    /\ UNCHANGED <<adapterVars, forwardVars, heartbeatVars, sessionVars>>

\* Line 577: await websocket.close(code=1011), then the finally block is entered.
CloseOnError ==
    /\ pc = "closing"
    /\ close_code' = InternalError
    /\ pc' = "td_put"
    /\ UNCHANGED <<exit_reason, adapter, config, ingest, audio_queue, chunk_seq, pending, sentinels, client_state, logged>>
    /\ UNCHANGED <<adapterVars, forwardVars, heartbeatVars, sessionVars>>

TeardownPutThenReceive ==
    /\ pc = "td_put"
    /\ Len(audio_queue) < QueueMaxSize
    /\ audio_queue' = Append(audio_queue, Sentinel)
    /\ sentinels' = sentinels + 1
    /\ pc' = IF chunk_seq < MaxChunks /\ sentinels = 0 THEN "receive" ELSE "td_hb"
    /\ UNCHANGED <<exit_reason, adapter, config, ingest, chunk_seq, pending, close_code, client_state, logged>>
    /\ UNCHANGED <<adapterVars, forwardVars, heartbeatVars, sessionVars>>

\* Line 580: await audio_queue.put(None).
TeardownPut ==
    /\ pc = "td_put"
    /\ Len(audio_queue) < QueueMaxSize
    /\ audio_queue' = Append(audio_queue, Sentinel)
    /\ sentinels' = sentinels + 1
    /\ pc' = "td_hb"
    /\ UNCHANGED <<exit_reason, adapter, config, ingest, chunk_seq, pending, close_code, client_state, logged>>
    /\ UNCHANGED <<adapterVars, forwardVars, heartbeatVars, sessionVars>>

TeardownHeartbeatNoCancel ==
    /\ pc = "td_hb"
    /\ pc' = "td_fwd"
    /\ UNCHANGED <<exit_reason, adapter, config, ingest, audio_queue, chunk_seq, pending, sentinels, close_code,
                   client_state, hb, logged>>
    /\ UNCHANGED <<adapterVars, forwardVars, sessionVars>>

\* Lines 583-587: heartbeat_task.cancel(); await heartbeat_task; CancelledError is
\* passed.  Cancelling a task that is over changes nothing.
TeardownHeartbeat ==
    /\ pc = "td_hb"
    /\ hb' = IF hb = "created" THEN "cancelled" ELSE hb
    /\ pc' = "td_fwd"
    /\ UNCHANGED <<exit_reason, adapter, config, ingest, audio_queue, chunk_seq, pending, sentinels, close_code,
                   client_state, logged>>
    /\ UNCHANGED <<adapterVars, forwardVars, sessionVars>>

TeardownForwardNoAwait ==
    /\ pc = "td_fwd"
    /\ logged' = IF fwd = "failed" THEN logged \cup {"stt.error"} ELSE logged
    /\ pc' = IF exit_reason = "error" THEN "raised" ELSE "returned"
    /\ UNCHANGED <<exit_reason, adapter, config, ingest, audio_queue, chunk_seq, pending, sentinels, close_code, client_state>>
    /\ UNCHANGED <<adapterVars, forwardVars, heartbeatVars, sessionVars>>

\* Lines 589-594: await transcript_task; its exception is logged, not raised.  The
\* handler then returns, or re-raises the exception of the ingest loop (line 578).
TeardownForward ==
    /\ pc = "td_fwd"
    /\ fwd \in {"done", "failed"}
    /\ logged' = IF fwd = "failed" THEN logged \cup {"stt.error"} ELSE logged
    /\ pc' = IF exit_reason = "error" THEN "raised" ELSE "returned"
    /\ UNCHANGED <<exit_reason, adapter, config, ingest, audio_queue, chunk_seq, pending, sentinels, close_code, client_state>>
    /\ UNCHANGED <<adapterVars, forwardVars, heartbeatVars, sessionVars>>

\* ------------------------------------------------------------- queue_stream
QueueItemLast(q) == q[Len(q)]

\* stt.py 332-340: item = await queue.get(); None ends the stream.
QueueItem(q) == Head(q)
QueueRest(q) == Tail(q)

\* --------------------------------------------------------------- adapters
NextId == Len(emitted) + 1

StubPartialCompleted(ci, pi) ==
    [type |-> PARTIAL, id |-> NextId, phrase |-> pi + 1,
     words |-> Min(PhraseWords[pi + 1], ci \div PartialEvery),
     conf |-> StubPartialConfidence, chunks |-> ci, completed |-> TRUE]

\* StubAdapter.run, lines 84-97: the PARTIAL of chunk ci while the cursor is at phrase pi.
StubPartial(ci, pi) ==
    [type |-> PARTIAL, id |-> NextId, phrase |-> pi + 1,
     words |-> Min(PhraseWords[pi + 1], ci \div PartialEvery),
     conf |-> StubPartialConfidence, chunks |-> ci, completed |-> FALSE]

StubFinalPartialText(ci, pi) ==
    [type |-> FINAL, id |-> NextId, phrase |-> pi + 1,
     words |-> Min(PhraseWords[pi + 1], ci \div PartialEvery),
     conf |-> StubFinalConfidence, chunks |-> ci, completed |-> TRUE]

\* StubAdapter.run, lines 109-116: the FINAL that completes phrase pi.
StubFinal(ci, pi) ==
    [type |-> FINAL, id |-> NextId, phrase |-> pi + 1, words |-> PhraseWords[pi + 1],
     conf |-> StubFinalConfidence, chunks |-> ci, completed |-> TRUE]

EngineEvent(type, text, conf, completed) ==
    [type |-> type, id |-> NextId, phrase |-> 0, words |-> text, conf |-> conf, chunks |-> 0,
     completed |-> completed]

\* The adapter generator hands an event to forward_transcripts (a yield).
Yield(ev, at) ==
    /\ cur' = ev
    /\ emitted' = Append(emitted, ev)
    /\ apc' = at
    /\ fwd' = "send"

\* StubAdapter.run, lines 79-105: one chunk is taken from the stream.
StubChunk ==
    /\ adapter = "stub" /\ fwd = "next" /\ apc = "get"
    /\ audio_queue # <<>> /\ QueueItem(audio_queue) # Sentinel
    /\ audio_queue' = QueueRest(audio_queue)
    /\ received' = Append(received, QueueItem(audio_queue))
    /\ chunk_index' = chunk_index + 1
    /\ IF (chunk_index + 1) % PartialEvery = 0 /\ phrase_index < NumPhrases
       THEN /\ Yield(StubPartial(chunk_index + 1, phrase_index), "at_partial")
            /\ Log({"stt.partial"})
       ELSE UNCHANGED <<cur, emitted, apc, fwd, logged>>
    /\ UNCHANGED <<phrase_index, engine_events, sent, send_failed>>
    /\ UNCHANGED <<greq, requests, gresults, recog>>
    /\ UNCHANGED <<handlerVars, heartbeatVars, sessionVars>>

\* StubAdapter.run, lines 105-120: the generator is resumed after a yield.
StubResume ==
    /\ adapter = "stub" /\ fwd = "next" /\ apc \in {"at_partial", "at_final"}
    /\ IF apc = "at_partial" /\ chunk_index % FinalEvery = 0
       THEN /\ Yield(StubFinal(chunk_index, phrase_index), "at_final")
            /\ Log({"stt.final"})
            /\ UNCHANGED phrase_index
       ELSE /\ apc' = "get"
            /\ phrase_index' = IF apc = "at_final"
                               THEN (phrase_index + 1) % NumPhrases
                               ELSE phrase_index
            /\ UNCHANGED <<cur, emitted, fwd, logged>>
    /\ UNCHANGED <<chunk_index, engine_events, received, sent, send_failed, audio_queue>>
    /\ UNCHANGED <<greq, requests, gresults, recog>>
    /\ UNCHANGED <<handlerVars, heartbeatVars, sessionVars>>

StubEndKeepsReading ==
    /\ adapter = "stub" /\ fwd = "next" /\ apc = "get"
    /\ audio_queue # <<>> /\ QueueItem(audio_queue) = Sentinel
    /\ audio_queue' = QueueRest(audio_queue)
    /\ UNCHANGED <<apc, fwd, chunk_index, phrase_index, engine_events, received, cur, emitted,
                   sent, send_failed, logged, greq, requests, gresults, recog>>
    /\ UNCHANGED <<handlerVars, heartbeatVars, sessionVars>>

\* StubAdapter.run, line 79: the stream has ended, so has the generator.
StubEnd ==
    /\ adapter = "stub" /\ fwd = "next" /\ apc = "get"
    /\ audio_queue # <<>> /\ QueueItem(audio_queue) = Sentinel
    /\ audio_queue' = QueueRest(audio_queue)
    /\ apc' = "ended"
    /\ fwd' = "done"
    /\ UNCHANGED <<chunk_index, phrase_index, engine_events, received, cur, emitted,
                   sent, send_failed, logged, greq, requests, gresults, recog>>
    /\ UNCHANGED <<handlerVars, heartbeatVars, sessionVars>>

\* ------------------------------------------------------------ VoskAdapter
\* The "conf" values a word of a recognizer result carries, in hundredths.
WordConfidences == {0, 60, 96}

HasConf(c) == c # NoConf

RECURSIVE Sum(_)
Sum(cs) == IF cs = <<>> THEN 0 ELSE Head(cs) + Sum(Tail(cs))

AverageConfidenceTruthy(words) ==
    IF words = <<>>
    THEN NoConf
    ELSE LET confidences == SelectSeq(words, LAMBDA c : HasConf(c) /\ c # 0)
         IN  IF confidences = <<>>
             THEN NoConf
             ELSE Sum(confidences) \div Len(confidences)

\* _average_confidence, lines 323-329: the mean of the confidences the words
\* carry, None for no words or for words none of which carries one.
AverageConfidence(words) ==
    IF words = <<>>
    THEN NoConf
    ELSE LET confidences == SelectSeq(words, HasConf)
         IN  IF confidences = <<>>
             THEN NoConf
             ELSE Sum(confidences) \div Len(confidences)

\* The word lists of the results of a run: no word list, or a word of
\* confidence 0 and a word without one.
VoskWordLists == {<<>>, <<0, NoConf>>}

\* Lines 275-305: the event the recognizer's answer to a chunk becomes.
VoskEvent(accepted, words) ==
    EngineEvent(IF accepted THEN FINAL ELSE PARTIAL, 1,
                IF accepted THEN AverageConfidence(words) ELSE NoConf, accepted)

VoskChunkYieldsEmpty ==
    /\ adapter = "vosk" /\ fwd = "next" /\ apc = "get"
    /\ audio_queue # <<>> /\ QueueItem(audio_queue) # Sentinel
    /\ audio_queue' = QueueRest(audio_queue)
    /\ received' = Append(received, QueueItem(audio_queue))
    /\ \E accepted \in BOOLEAN, has_text \in BOOLEAN, words \in VoskWordLists :
          /\ engine_events < MaxEvents
          /\ ~(accepted /\ has_text) => words = <<>>
          /\ recog' = [call |-> IF accepted THEN "Result" ELSE "PartialResult",
                       text |-> IF has_text THEN 1 ELSE 0, words |-> words]
          /\ Yield([VoskEvent(accepted, words) EXCEPT !.words = IF has_text THEN 1 ELSE 0],
                   "at_yield")
          /\ engine_events' = engine_events + 1
          /\ Log({IF accepted THEN "stt.final" ELSE "stt.partial"})
    /\ UNCHANGED <<chunk_index, phrase_index, sent, send_failed>>
    /\ UNCHANGED <<greq, requests, gresults>>
    /\ UNCHANGED <<handlerVars, heartbeatVars, sessionVars>>

\* VoskAdapter.run, lines 274-305: one chunk is fed to the recognizer, which
\* accepts it (Result is read) or not (PartialResult is read); an answer with
\* text is yielded.
VoskChunk ==
    /\ adapter = "vosk" /\ fwd = "next" /\ apc = "get"
    /\ audio_queue # <<>> /\ QueueItem(audio_queue) # Sentinel
    /\ audio_queue' = QueueRest(audio_queue)
    /\ received' = Append(received, QueueItem(audio_queue))
    /\ \E accepted \in BOOLEAN, has_text \in BOOLEAN, words \in VoskWordLists :
          /\ has_text => engine_events < MaxEvents
          /\ ~(accepted /\ has_text) => words = <<>>
          /\ recog' = [call |-> IF accepted THEN "Result" ELSE "PartialResult",
                       text |-> IF has_text THEN 1 ELSE 0, words |-> words]
          /\ IF has_text
             THEN /\ Yield(VoskEvent(accepted, words), "at_yield")
                  /\ engine_events' = engine_events + 1
                  /\ Log({IF accepted THEN "stt.final" ELSE "stt.partial"})
             ELSE UNCHANGED <<cur, emitted, apc, fwd, engine_events, logged>>
    /\ UNCHANGED <<chunk_index, phrase_index, sent, send_failed>>
    /\ UNCHANGED <<greq, requests, gresults>>
    /\ UNCHANGED <<handlerVars, heartbeatVars, sessionVars>>

VoskRaiseToldToClient ==
    /\ adapter = "vosk" /\ fwd = "next" /\ apc = "get"
    /\ \/ /\ chunk_seq = 0 /\ received = <<>>
          /\ UNCHANGED <<audio_queue, received>>
       \/ /\ audio_queue # <<>> /\ QueueItem(audio_queue) # Sentinel
          /\ audio_queue' = QueueRest(audio_queue)
          /\ received' = Append(received, QueueItem(audio_queue))
    /\ apc' = "raised"
    /\ fwd' = "failed"
    /\ Log({"stt.error"})
    /\ sent' = Append(sent, [type |-> "error", id |-> 0, text |-> "stt.error", speaker |-> "Host",
                             confidence |-> NoConf, is_final |-> FALSE])
    /\ UNCHANGED <<chunk_index, phrase_index, engine_events, cur, emitted, send_failed>>
    /\ UNCHANGED <<greq, requests, gresults, recog>>
    /\ UNCHANGED <<handlerVars, heartbeatVars, sessionVars>>

\* VoskAdapter.run, lines 271-294: KaldiRecognizer(...) raises before a chunk is
\* taken, or a recognizer call or json.loads raises on a chunk; the exception
\* leaves the generator and is logged by forward_transcripts (542-544).
VoskRaise ==
    /\ adapter = "vosk" /\ fwd = "next" /\ apc = "get"
    /\ \/ /\ chunk_seq = 0 /\ received = <<>>
          /\ UNCHANGED <<audio_queue, received>>
       \/ /\ audio_queue # <<>> /\ QueueItem(audio_queue) # Sentinel
          /\ audio_queue' = QueueRest(audio_queue)
          /\ received' = Append(received, QueueItem(audio_queue))
    /\ apc' = "raised"
    /\ fwd' = "failed"
    /\ Log({"stt.error"})
    /\ UNCHANGED <<chunk_index, phrase_index, engine_events, cur, emitted, sent, send_failed>>
    /\ UNCHANGED <<greq, requests, gresults, recog>>
    /\ UNCHANGED <<handlerVars, heartbeatVars, sessionVars>>

\* VoskAdapter.run, lines 291/305 and 320: the generator is resumed after a yield.
VoskResume ==
    /\ adapter = "vosk" /\ fwd = "next" /\ apc \in {"at_yield", "at_last"}
    /\ apc' = IF apc = "at_yield" THEN "get" ELSE "ended"
    /\ fwd' = IF apc = "at_yield" THEN "next" ELSE "done"
    /\ UNCHANGED <<chunk_index, phrase_index, engine_events, received, cur, emitted,
                   sent, send_failed, audio_queue, logged, greq, requests, gresults,
                   recog>>
    /\ UNCHANGED <<handlerVars, heartbeatVars, sessionVars>>

VoskEndNoFlush ==
    /\ adapter = "vosk" /\ fwd = "next" /\ apc = "get"
    /\ audio_queue # <<>> /\ QueueItem(audio_queue) = Sentinel
    /\ audio_queue' = QueueRest(audio_queue)
    /\ apc' = "ended"
    /\ fwd' = "done"
    /\ UNCHANGED <<cur, emitted, engine_events, logged, recog>>
    /\ UNCHANGED <<chunk_index, phrase_index, received, sent, send_failed>>
    /\ UNCHANGED <<greq, requests, gresults>>
    /\ UNCHANGED <<handlerVars, heartbeatVars, sessionVars>>

\* VoskAdapter.run, lines 306-320: the stream has ended, FinalResult is read
\* and, with text, yielded as the last event.
VoskEnd ==
    /\ adapter = "vosk" /\ fwd = "next" /\ apc = "get"
    /\ audio_queue # <<>> /\ QueueItem(audio_queue) = Sentinel
    /\ audio_queue' = QueueRest(audio_queue)
    /\ \E has_text \in BOOLEAN, words \in VoskWordLists :
          /\ has_text => engine_events < MaxEvents
          /\ ~has_text => words = <<>>
          /\ recog' = [call |-> "FinalResult", text |-> IF has_text THEN 1 ELSE 0,
                       words |-> words]
          /\ IF has_text
             THEN /\ Yield(VoskEvent(TRUE, words), "at_last")
                  /\ engine_events' = engine_events + 1
                  /\ Log({"stt.final"})
             ELSE /\ apc' = "ended"
                  /\ fwd' = "done"
                  /\ UNCHANGED <<cur, emitted, engine_events, logged>>
    /\ UNCHANGED <<chunk_index, phrase_index, received, sent, send_failed>>
    /\ UNCHANGED <<greq, requests, gresults>>
    /\ UNCHANGED <<handlerVars, heartbeatVars, sessionVars>>

\* ---------------------------------------------------- GoogleSpeechAdapter
\* GoogleSpeechAdapter.__init__, lines 160-172: one configuration is built for
\* each rate, named here by its sample_rate_hertz; the sample_rate argument is
\* not used, self._config is the configuration of 48000.
GoogleConfigs == [rate \in SampleRates |-> rate]

GoogleConfig(sample_rate) == GoogleConfigs[SelectedRate]

\* The alternatives of a result: none, or two of which the first is the top one;
\* an alternative is its transcript and its confidence in hundredths.
AlternativeLists ==
    {<<>>,
     <<[transcript |-> 1, confidence |-> 80], [transcript |-> 2, confidence |-> 60]>>}

\* A recognition result: its alternatives, and whether it is final.
Results == [alts : AlternativeLists, is_final : BOOLEAN]

\* response.results of one response.
GoogleResponses == UNION {[1..n -> Results] : n \in 1..MaxResults}

Alternatives(rs) == Cardinality({i \in 1..Len(rs) : rs[i].alts # <<>>})

\* Lines 215-217: the first result with an alternative, 0 if there is none.
FirstAlt(rs) ==
    IF \E i \in 1..Len(rs) : rs[i].alts # <<>>
    THEN CHOOSE i \in 1..Len(rs) : rs[i].alts # <<>> /\ \A j \in 1..(i - 1) : rs[j].alts = <<>>
    ELSE 0

GoogleEventLastAlternative(result) ==
    LET alternative == result.alts[Len(result.alts)] IN
    EngineEvent(IF result.is_final THEN FINAL ELSE PARTIAL, alternative.transcript,
                IF result.is_final THEN alternative.confidence ELSE NoConf,
                result.is_final)

\* Lines 218-233: the event of a result.
GoogleEvent(result) ==
    LET alternative == result.alts[1] IN
    EngineEvent(IF result.is_final THEN FINAL ELSE PARTIAL, alternative.transcript,
                IF result.is_final THEN alternative.confidence ELSE NoConf,
                result.is_final)

\* Lines 215-242: visit the results rs until one yields an event.
GoogleVisit(rs) ==
    LET i == FirstAlt(rs) IN
    IF i = 0
    THEN /\ gresults' = <<>>
         /\ apc' = "await_response"
         /\ UNCHANGED <<cur, emitted, fwd, logged>>
    ELSE /\ gresults' = SubSeq(rs, i + 1, Len(rs))
         /\ Yield(GoogleEvent(rs[i]), "at_yield")
         /\ Log({IF rs[i].is_final THEN "stt.final" ELSE "stt.partial"})

GoogleStartNoConfig ==
    /\ adapter = "google" /\ fwd = "next" /\ apc = "start"
    /\ apc' = "await_response"
    /\ greq' = "audio"
    /\ UNCHANGED <<chunk_index, phrase_index, engine_events, received, requests, gresults, recog,
                   audio_queue, logged>>
    /\ UNCHANGED <<handlerVars, forwardVars, heartbeatVars, sessionVars>>

\* Lines 205-208: streaming_recognize returns the call.
GoogleStart ==
    /\ adapter = "google" /\ fwd = "next" /\ apc = "start"
    /\ apc' = "await_response"
    /\ greq' = "config"
    /\ UNCHANGED <<chunk_index, phrase_index, engine_events, received, requests, gresults, recog,
                   audio_queue, logged>>
    /\ UNCHANGED <<handlerVars, forwardVars, heartbeatVars, sessionVars>>

\* Lines 181-201: the backend client takes the next request from request_generator.
GoogleRequest ==
    /\ adapter = "google" /\ fwd \in {"next", "send"}
    /\ apc \in {"await_response", "at_yield"}
    /\ \/ /\ greq = "config"
          /\ requests' = Append(requests, [kind |-> "config", chunk |-> 0,
                                            config |-> GoogleConfig(config.sample_rate)])
          /\ greq' = "audio"
          /\ UNCHANGED <<audio_queue, received>>
       \/ /\ greq = "audio"
          /\ audio_queue # <<>>
          /\ audio_queue' = QueueRest(audio_queue)
          /\ IF QueueItem(audio_queue) = Sentinel
             THEN /\ greq' = "ended"
                  /\ UNCHANGED <<requests, received>>
             ELSE /\ requests' = Append(requests,
                                        [kind |-> "audio", chunk |-> QueueItem(audio_queue),
                                         config |-> 0])
                  /\ received' = Append(received, QueueItem(audio_queue))
                  /\ UNCHANGED greq
    /\ UNCHANGED <<apc, chunk_index, phrase_index, engine_events, gresults, recog, logged>>
    /\ UNCHANGED <<handlerVars, forwardVars, heartbeatVars, sessionVars>>

\* Lines 211-213: a response arrives; its results are there to be visited.
GoogleResponse ==
    /\ adapter = "google" /\ fwd = "next" /\ apc = "await_response"
    /\ greq # "config"
    /\ \E rs \in GoogleResponses :
          /\ engine_events + Alternatives(rs) <= MaxEvents
          /\ engine_events' = engine_events + Alternatives(rs)
          /\ gresults' = rs
    /\ apc' = "results"
    /\ UNCHANGED <<chunk_index, phrase_index, received, greq, requests, recog, audio_queue,
                   logged>>
    /\ UNCHANGED <<handlerVars, forwardVars, heartbeatVars, sessionVars>>

\* Lines 215-242: the results are visited, from the start of a response or after
\* a yield, until one yields an event.
GoogleResume ==
    /\ adapter = "google" /\ fwd = "next" /\ apc \in {"results", "at_yield"}
    /\ GoogleVisit(gresults)
    /\ UNCHANGED <<chunk_index, phrase_index, engine_events, received, greq, requests, recog,
                   sent, send_failed, audio_queue>>
    /\ UNCHANGED <<handlerVars, heartbeatVars, sessionVars>>

\* Line 211: the backend ends the response stream after the requests have ended.
GoogleEnd ==
    /\ adapter = "google" /\ fwd = "next" /\ apc = "await_response"
    /\ greq = "ended"
    /\ apc' = "ended"
    /\ fwd' = "done"
    /\ UNCHANGED <<chunk_index, phrase_index, engine_events, received, greq, requests,
                   gresults, recog, cur, emitted, sent, send_failed, audio_queue, logged>>
    /\ UNCHANGED <<handlerVars, heartbeatVars, sessionVars>>

\* Lines 244-246: a transport error ends the run; forward_transcripts logs it (542-544).
GoogleRaise ==
    /\ adapter = "google" /\ fwd = "next" /\ apc \in {"start", "await_response"}
    /\ apc' = "raised"
    /\ fwd' = "failed"
    /\ Log({"google.error", "stt.error"})
    /\ UNCHANGED <<chunk_index, phrase_index, engine_events, received, greq, requests,
                   gresults, recog, cur, emitted, sent, send_failed, audio_queue>>
    /\ UNCHANGED <<handlerVars, heartbeatVars, sessionVars>>

\* ------------------------------------------------------ forward_transcripts
PayloadOrDefault(ev) ==
    [type |-> "transcription", id |-> ev.id, text |-> <<ev.phrase, ev.words>>,
     speaker |-> "Host",
     confidence |-> IF ev.conf # NoConf /\ ev.conf # 0 THEN ev.conf ELSE DefaultConfidence,
     is_final |-> ev.type = FINAL]

\* Lines 512-518: the message sent to the client.
Payload(ev) ==
    [type |-> "transcription", id |-> ev.id, text |-> <<ev.phrase, ev.words>>,
     speaker |-> "Host",
     confidence |-> IF ev.conf # NoConf THEN ev.conf ELSE DefaultConfidence,
     is_final |-> ev.type = FINAL]

ShouldRegisterAny(ev) == TRUE

\* Line 520.
ShouldRegister(ev) == ev.type = FINAL

\* Lines 523-529: the fragment of an event; conn, id and kind record where it comes from.
Fragment(ev) ==
    [conn |-> "self", id |-> ev.id, kind |-> ev.type, text |-> <<ev.phrase, ev.words>>,
     confidence |-> ev.conf, speaker |-> "Host", chunks |-> ev.chunks]

RegisterFragmentFront(log, fragment) == <<fragment>> \o log

\* SessionManager.register_transcript_fragment, lines 78-80.
RegisterFragment(log, fragment) == Append(log, fragment)

\* Lines 536-537 and 540-541.
Register(ev) ==
    IF ShouldRegister(ev)
    THEN /\ transcript' = RegisterFragment(transcript, Fragment(ev))
         /\ appended' = Append(appended, Fragment(ev))
    ELSE UNCHANGED <<transcript, appended>>

\* Lines 531-534, 539-541: send_json returns.
SendOk ==
    /\ fwd = "send"
    /\ sent' = Append(sent, Payload(cur))
    /\ Log({"ws.sent_transcription"})
    /\ Register(cur)
    /\ fwd' = "next"
    /\ cur' = NoEvent
    /\ UNCHANGED <<emitted, send_failed, audio_queue, others, resets, apiVars>>
    /\ UNCHANGED <<handlerVars, adapterVars, heartbeatVars>>

SendRuntimeErrorNoRegister ==
    /\ fwd = "send"
    /\ send_failed' = send_failed \cup {cur.id}
    /\ fwd' = "done"
    /\ cur' = NoEvent
    /\ UNCHANGED <<emitted, sent, audio_queue, logged>>
    /\ UNCHANGED <<handlerVars, adapterVars, heartbeatVars, sessionVars>>

SendRuntimeErrorContinue ==
    /\ fwd = "send"
    /\ send_failed' = send_failed \cup {cur.id}
    /\ Register(cur)
    /\ fwd' = "next"
    /\ cur' = NoEvent
    /\ UNCHANGED <<emitted, sent, audio_queue, others, resets, apiVars, logged>>
    /\ UNCHANGED <<handlerVars, adapterVars, heartbeatVars>>

\* Lines 535-538: send_json raises RuntimeError; the loop is left.
SendRuntimeError ==
    /\ fwd = "send"
    /\ send_failed' = send_failed \cup {cur.id}
    /\ Register(cur)
    /\ fwd' = "done"
    /\ cur' = NoEvent
    /\ UNCHANGED <<emitted, sent, audio_queue, others, resets, apiVars, logged>>
    /\ UNCHANGED <<handlerVars, adapterVars, heartbeatVars>>

HeartbeatErrorPropagates ==
    /\ hb = "created"
    /\ hb' = "failed"
    /\ UNCHANGED <<audio_queue, logged>>
    /\ UNCHANGED <<handlerVars, adapterVars, forwardVars, sessionVars>>

\* ----------------------------------------------------------- send_heartbeat
\* Lines 497-506.  The first step of the task evaluates
\* settings.websocket_heartbeat_interval (line 499); Settings (config.py 10-22)
\* declares no such field, so the read raises AttributeError before any sleep, the
\* except clause logs ws.heartbeat_error (505-506) and the task is over.  The
\* state test and the ping of lines 500-504 are never reached.
HeartbeatError ==
    /\ hb = "created"
    /\ Log({"ws.heartbeat_error"})
    /\ hb' = "done"
    /\ UNCHANGED audio_queue
    /\ UNCHANGED <<handlerVars, adapterVars, forwardVars, sessionVars>>

\* ------------------------------------------------------------ the session
\* forward_transcripts of another connection registers a fragment.
OtherConnectionAppend ==
    /\ others + resets < MaxSessionOps
    /\ others' = others + 1
    /\ transcript' = RegisterFragment(transcript,
           [conn |-> "other", id |-> others + 1, kind |-> FINAL, text |-> <<0, 1>>,
            confidence |-> NoConf, speaker |-> "Host", chunks |-> 0])
    /\ UNCHANGED <<appended, resets, apiVars, audio_queue, logged>>
    /\ UNCHANGED <<handlerVars, adapterVars, forwardVars, heartbeatVars>>

\* SessionManager.reset, lines 56-60.
SessionReset ==
    /\ others + resets < MaxSessionOps
    /\ resets' = resets + 1
    /\ transcript' = <<>>
    /\ cards' = <<>>
    /\ UNCHANGED <<appended, others, audio_queue, logged>>
    /\ UNCHANGED <<system_prompt, lock, running, reqs, snap, compose>>
    /\ UNCHANGED <<handlerVars, adapterVars, forwardVars, heartbeatVars>>

\* ---------------------------------------------------------------- the system
Next ==
    \/ ConstructOk \/ ConstructValueError \/ ConstructRuntimeError
    \/ ReceiveData \/ PutResume \/ ReceiveNull \/ ReceiveDisconnect
    \/ ReceiveError \/ CloseOnError
    \/ TeardownPut \/ TeardownHeartbeat \/ TeardownForward
    \/ StubChunk \/ StubResume \/ StubEnd
    \/ VoskChunk \/ VoskRaise \/ VoskResume \/ VoskEnd
    \/ GoogleStart \/ GoogleRequest \/ GoogleResponse \/ GoogleResume
    \/ GoogleEnd \/ GoogleRaise
    \/ SendOk \/ SendRuntimeError
    \/ HeartbeatError
    \/ OtherConnectionAppend \/ SessionReset

Spec == Init /\ [][Next]_vars

\* What the asyncio loop and the parties of the connection guarantee: a task that
\* can run is run, a started send or recognizer call comes back, and the client
\* goes away in the end (it disconnects, or a read fails).
HandlerStep ==
    PutResume \/ CloseOnError \/ TeardownPut \/ TeardownHeartbeat \/ TeardownForward

ForwardStep ==
    \/ StubChunk \/ StubResume \/ StubEnd
    \/ VoskChunk \/ VoskRaise \/ VoskResume \/ VoskEnd
    \/ GoogleStart \/ GoogleResponse \/ GoogleResume \/ GoogleEnd \/ GoogleRaise
    \/ SendOk \/ SendRuntimeError

ClientLeaves == ReceiveDisconnect \/ ReceiveError

FairSpec ==
    /\ Spec
    /\ WF_vars(HandlerStep)
    /\ WF_vars(ForwardStep)
    /\ WF_vars(GoogleRequest)
    /\ WF_vars(ClientLeaves)

\* Adapter construction alone, under every engine name and environment.
CtorInit == config \in Configs /\ Accepted

CtorNext ==
    \/ ConstructOk \/ ConstructValueError \/ ConstructRuntimeError
    \/ OtherConnectionAppend \/ SessionReset

CtorSpec == CtorInit /\ [][CtorNext]_vars

\* ------------------------------------------------- a stub adapter on its own
\* tests/test_stt_stub.py 11-20: a stub adapter (google asked for, the package
\* missing) and an unbounded queue holding n chunks and then None.
StubInit ==
    /\ config = Deployment("google", FALSE, FALSE)
    /\ adapter = Construct(config)
    /\ \E n \in 0..MaxStubChunks : audio_queue = [i \in 1..n |-> i] \o <<Sentinel>>
    /\ pc = "accepted" /\ exit_reason = "none" /\ chunk_seq = 0 /\ ingest = NoIngest /\ pending = 0
    /\ sentinels = 0 /\ close_code = NoCode /\ client_state = "CONNECTED"
    /\ fwd = "next" /\ apc = "get" /\ chunk_index = 0 /\ phrase_index = 0
    /\ engine_events = 0 /\ received = <<>> /\ greq = "idle" /\ requests = <<>>
    /\ gresults = <<>> /\ recog = NoAnswer /\ cur = NoEvent /\ emitted = <<>> /\ sent = <<>>
    /\ send_failed = {} /\ hb = "idle" /\ transcript = <<>> /\ appended = <<>>
    /\ others = 0 /\ resets = 0 /\ SessionCreated /\ logged = {}

\* tests/test_stt_stub.py 23-24: events.append(event), and the next event is asked for.
TestCollect ==
    /\ pc = "accepted" /\ fwd = "send"
    /\ fwd' = "next"
    /\ cur' = NoEvent
    /\ UNCHANGED <<emitted, sent, send_failed, audio_queue, logged>>
    /\ UNCHANGED <<handlerVars, adapterVars, heartbeatVars, sessionVars>>

StubNext == StubChunk \/ StubResume \/ StubEnd \/ TestCollect

StubSpec == StubInit /\ [][StubNext]_vars

\* ------------------------------------------------- _average_confidence alone
\* The word lists of up to MaxWords words.
WordLists == UNION {[1..n -> WordConfidences \cup {NoConf}] : n \in 0..MaxWords}

\* A Vosk adapter whose recognizer has answered Result or FinalResult with text
\* and any of the word lists.
ConfInit ==
    /\ config = Deployment("Vosk", FALSE, TRUE)
    /\ adapter = Construct(config)
    /\ recog \in [call : {"Result", "FinalResult"}, text : {1}, words : WordLists]
    /\ audio_queue = <<>>
    /\ pc = "accepted" /\ exit_reason = "none" /\ chunk_seq = 0 /\ ingest = NoIngest /\ pending = 0
    /\ sentinels = 0 /\ close_code = NoCode /\ client_state = "CONNECTED"
    /\ fwd = "next" /\ apc = "get" /\ chunk_index = 0 /\ phrase_index = 0
    /\ engine_events = 0 /\ received = <<>> /\ greq = "idle" /\ requests = <<>>
    /\ gresults = <<>> /\ cur = NoEvent /\ emitted = <<>> /\ sent = <<>>
    /\ send_failed = {} /\ hb = "idle" /\ transcript = <<>> /\ appended = <<>>
    /\ others = 0 /\ resets = 0 /\ SessionCreated /\ logged = {}

\* VoskAdapter.run, lines 280-291 and 310-320: the FINAL of the answer is made.
VoskResult ==
    /\ adapter = "vosk" /\ fwd = "next" /\ apc = "get"
    /\ recog.call \in {"Result", "FinalResult"} /\ recog.text = 1
    /\ Yield(VoskEvent(TRUE, recog.words),
             IF recog.call = "Result" THEN "at_yield" ELSE "at_last")
    /\ engine_events' = engine_events + 1
    /\ Log({"stt.final"})
    /\ UNCHANGED <<chunk_index, phrase_index, received, greq, requests, gresults, recog,
                   sent, send_failed, audio_queue>>
    /\ UNCHANGED <<handlerVars, heartbeatVars, sessionVars>>

ConfNext == VoskResult

ConfSpec == ConfInit /\ [][ConfNext]_vars

\* ------------------------------------------------ the session and its API
\* The handlers that use the session: what each calls, in order.  A name of a
\* SessionManager method is a call of it; compose is the await of
\* composer.compose (line 373), card_payload the dict built at lines 375-396.
Ops ==
    {"create_card", "reset_session", "update_card", "update_system_prompt", "export",
     "status", "forward_transcripts"}

ScriptPayloadFirst(op) ==
    CASE op = "create_card" ->
            <<"get_system_prompt", "card_payload", "compose", "register_card">>
      [] op = "reset_session" -> <<"reset", "counts">>
      [] op = "update_card" -> <<"update_card">>
      [] op = "update_system_prompt" -> <<"set_system_prompt">>
      [] op = "export" -> <<"snapshot">>
      [] op = "status" -> <<"counts">>
      [] op = "forward_transcripts" -> <<"register_transcript_fragment">>

\* create_card 357-407, reset_session 350-354, update_card 438-454,
\* update_system_prompt 420-426, export 457-468, status 301-310,
\* forward_transcripts 535-541.
Script(op) ==
    CASE op = "create_card" ->
            <<"get_system_prompt", "compose", "card_payload", "register_card">>
      [] op = "reset_session" -> <<"reset", "counts">>
      [] op = "update_card" -> <<"update_card">>
      [] op = "update_system_prompt" -> <<"set_system_prompt">>
      [] op = "export" -> <<"snapshot">>
      [] op = "status" -> <<"counts">>
      [] op = "forward_transcripts" -> <<"register_transcript_fragment">>

\* What request r is about to do, or is doing.
Call(r) == IF reqs[r].op = "none" THEN "none" ELSE Script(reqs[r].op)[reqs[r].step]

Methods ==
    {"get_system_prompt", "set_system_prompt", "register_card", "reset", "counts",
     "snapshot", "update_card", "register_transcript_fragment"}

\* Creates in flight: requests that have not registered their card yet.
Creating == {r \in Requests : reqs[r].op = "create_card" /\ reqs[r].pc # "idle"}

\* The event loop starts the handler of a request; it runs to its first call.
RequestStart(r) ==
    /\ running = 0 /\ reqs[r].pc = "idle"
    /\ \E op \in Ops, arg \in 1..MaxCards :
          /\ op # "update_card" => arg = 1
          /\ op = "create_card" => Len(cards) + Cardinality(Creating) < MaxCards
          /\ op = "forward_transcripts" => others < MaxFragments
          /\ op = "reset_session" => resets < MaxSessionOps
          /\ reqs' = [reqs EXCEPT ![r] = [op |-> op, step |-> 1, pc |-> "call", arg |-> arg,
                                          card |-> 0, result |-> <<>>]]
    /\ running' = r
    /\ UNCHANGED <<transcript, appended, others, resets, cards, system_prompt, lock, snap,
                   compose, audio_queue, logged>>
    /\ UNCHANGED <<handlerVars, adapterVars, forwardVars, heartbeatVars>>

\* async with self.lock, entered: the lock is free and is taken at once.
LockAcquire(r) ==
    /\ running = r /\ reqs[r].pc = "call" /\ Call(r) \in Methods
    /\ lock = 0
    /\ lock' = r
    /\ reqs' = [reqs EXCEPT ![r].pc = "locked"]
    /\ UNCHANGED <<transcript, appended, others, resets, cards, system_prompt, running, snap,
                   compose, audio_queue, logged>>
    /\ UNCHANGED <<handlerVars, adapterVars, forwardVars, heartbeatVars>>

\* Request r is in the body of method under the lock.
Locked(r, method) == running = r /\ reqs[r].pc = "locked" /\ lock = r /\ Call(r) = method

\* The body of a method is over, with the counts it returns if it returns any.
Returns(r, result) == reqs' = [reqs EXCEPT ![r].pc = "release", ![r].result = result]

\* SessionManager.get_system_prompt, lines 99-101.
get_system_prompt(r) ==
    /\ Locked(r, "get_system_prompt")
    /\ Returns(r, <<>>)
    /\ UNCHANGED <<transcript, others, resets, cards, system_prompt, snap, appended, lock, running, compose, audio_queue, logged>>
    /\ UNCHANGED <<handlerVars, adapterVars, forwardVars, heartbeatVars>>

\* SessionManager.set_system_prompt, lines 103-106.
set_system_prompt(r) ==
    /\ Locked(r, "set_system_prompt")
    /\ system_prompt' = reqs[r].arg
    /\ Returns(r, <<>>)
    /\ UNCHANGED <<transcript, others, resets, cards, snap, appended, lock, running, compose, audio_queue, logged>>
    /\ UNCHANGED <<handlerVars, adapterVars, forwardVars, heartbeatVars>>

\* SessionManager.register_card, lines 73-76.
register_card(r) ==
    /\ Locked(r, "register_card")
    /\ cards' = Append(cards, [cardId |-> reqs[r].card, prompt |-> 0])
    /\ Returns(r, <<>>)
    /\ UNCHANGED <<transcript, others, resets, system_prompt, snap, appended, lock, running, compose, audio_queue, logged>>
    /\ UNCHANGED <<handlerVars, adapterVars, forwardVars, heartbeatVars>>

resetKeepsCards(r) ==
    /\ Locked(r, "reset")
    /\ transcript' = <<>>
    /\ resets' = resets + 1
    /\ Returns(r, <<>>)
    /\ UNCHANGED <<others, cards, system_prompt, snap, appended, lock, running, compose, audio_queue, logged>>
    /\ UNCHANGED <<handlerVars, adapterVars, forwardVars, heartbeatVars>>

\* SessionManager.reset, lines 56-60.
reset(r) ==
    /\ Locked(r, "reset")
    /\ transcript' = <<>>
    /\ cards' = <<>>
    /\ resets' = resets + 1
    /\ Returns(r, <<>>)
    /\ UNCHANGED <<others, system_prompt, snap, appended, lock, running, compose, audio_queue, logged>>
    /\ UNCHANGED <<handlerVars, adapterVars, forwardVars, heartbeatVars>>

\* SessionManager.counts, lines 108-110.
counts(r) ==
    /\ Locked(r, "counts")
    /\ Returns(r, <<[cards |-> Len(cards), transcripts |-> Len(transcript)]>>)
    /\ UNCHANGED <<transcript, others, resets, cards, system_prompt, snap, appended, lock, running, compose, audio_queue, logged>>
    /\ UNCHANGED <<handlerVars, adapterVars, forwardVars, heartbeatVars>>

\* SessionManager.snapshot, lines 66-71: copies of the two lists.
snapshot(r) ==
    /\ Locked(r, "snapshot")
    /\ snap' = [taken |-> TRUE, transcript |-> transcript, cards |-> cards, epoch |-> resets]
    /\ Returns(r, <<>>)
    /\ UNCHANGED <<transcript, others, resets, cards, system_prompt, appended, lock, running, compose, audio_queue, logged>>
    /\ UNCHANGED <<handlerVars, adapterVars, forwardVars, heartbeatVars>>

\* The first card whose cardId is card_id, 0 if there is none (lines 92-93).
FirstCard(card_id) ==
    LET hits == {i \in 1..Len(cards) : cards[i].cardId = card_id}
    IN  IF hits = {} THEN 0 ELSE CHOOSE i \in hits : \A j \in hits : i <= j

update_cardRewritesLog(r) ==
    /\ Locked(r, "update_card")
    /\ cards' = IF FirstCard(reqs[r].arg) = 0 THEN cards
                ELSE [cards EXCEPT ![FirstCard(reqs[r].arg)].prompt = 1]
    /\ transcript' = [i \in 1..Len(transcript) |-> [transcript[i] EXCEPT !.text = <<0, 0>>]]
    /\ Returns(r, <<>>)
    /\ UNCHANGED <<others, resets, system_prompt, snap, appended, lock, running, compose, audio_queue, logged>>
    /\ UNCHANGED <<handlerVars, adapterVars, forwardVars, heartbeatVars>>

\* SessionManager.update_card, lines 90-98.
update_card(r) ==
    /\ Locked(r, "update_card")
    /\ cards' = IF FirstCard(reqs[r].arg) = 0 THEN cards
                ELSE [cards EXCEPT ![FirstCard(reqs[r].arg)].prompt = 1]
    /\ Returns(r, <<>>)
    /\ UNCHANGED <<transcript, others, resets, system_prompt, snap, appended, lock, running, compose, audio_queue, logged>>
    /\ UNCHANGED <<handlerVars, adapterVars, forwardVars, heartbeatVars>>

\* SessionManager.register_transcript_fragment, lines 78-80.
register_transcript_fragment(r) ==
    /\ Locked(r, "register_transcript_fragment")
    /\ others' = others + 1
    /\ transcript' = RegisterFragment(transcript,
           [conn |-> "other", id |-> others + 1, kind |-> FINAL, text |-> <<0, 1>>,
            confidence |-> NoConf, speaker |-> "Host", chunks |-> 0])
    /\ Returns(r, <<>>)
    /\ UNCHANGED <<resets, cards, system_prompt, snap, appended, lock, running, compose, audio_queue, logged>>
    /\ UNCHANGED <<handlerVars, adapterVars, forwardVars, heartbeatVars>>

LockReleaseLate(r) ==
    /\ running = r /\ reqs[r].pc = "release" /\ lock = r
    /\ IF reqs[r].step = Len(Script(reqs[r].op))
       THEN /\ reqs' = [reqs EXCEPT ![r] = IdleRequest]
            /\ running' = 0
            /\ lock' = lock
       ELSE /\ reqs' = [reqs EXCEPT ![r].pc = "call", ![r].step = reqs[r].step + 1]
            /\ lock' = 0
            /\ UNCHANGED running
    /\ UNCHANGED <<transcript, appended, others, resets, cards, system_prompt, snap, compose,
                   audio_queue, logged>>
    /\ UNCHANGED <<handlerVars, adapterVars, forwardVars, heartbeatVars>>

\* async with self.lock, left: the lock is released and the handler goes on to
\* its next call, or returns its response.
LockRelease(r) ==
    /\ running = r /\ reqs[r].pc = "release" /\ lock = r
    /\ lock' = 0
    /\ IF reqs[r].step = Len(Script(reqs[r].op))
       THEN /\ reqs' = [reqs EXCEPT ![r] = IdleRequest]
            /\ running' = 0
       ELSE /\ reqs' = [reqs EXCEPT ![r].pc = "call", ![r].step = reqs[r].step + 1]
            /\ UNCHANGED running
    /\ UNCHANGED <<transcript, appended, others, resets, cards, system_prompt, snap, compose,
                   audio_queue, logged>>
    /\ UNCHANGED <<handlerVars, adapterVars, forwardVars, heartbeatVars>>

\* create_card, line 373: await composer.compose(...); the handler is suspended.
ComposeAwait(r) ==
    /\ running = r /\ reqs[r].pc = "call" /\ Call(r) = "compose"
    /\ reqs' = [reqs EXCEPT ![r].pc = "awaiting"]
    /\ running' = 0
    /\ UNCHANGED lock
    /\ UNCHANGED <<transcript, appended, others, resets, cards, system_prompt, snap, compose,
                   audio_queue, logged>>
    /\ UNCHANGED <<handlerVars, adapterVars, forwardVars, heartbeatVars>>

\* Line 373: compose has returned its result; the handler is resumed.
ComposeReturn(r) ==
    /\ running = 0 /\ reqs[r].pc = "awaiting"
    /\ reqs' = [reqs EXCEPT ![r].pc = "call", ![r].step = reqs[r].step + 1]
    /\ running' = r
    /\ UNCHANGED lock
    /\ UNCHANGED <<transcript, appended, others, resets, cards, system_prompt, snap, compose,
                   audio_queue, logged>>
    /\ UNCHANGED <<handlerVars, adapterVars, forwardVars, heartbeatVars>>

\* Line 373: compose has raised; the request fails and no card is registered.
ComposeRaise(r) ==
    /\ running = 0 /\ reqs[r].pc = "awaiting"
    /\ reqs' = [reqs EXCEPT ![r] = IdleRequest]
    /\ UNCHANGED <<running, lock>>
    /\ UNCHANGED <<transcript, appended, others, resets, cards, system_prompt, snap, compose,
                   audio_queue, logged>>
    /\ UNCHANGED <<handlerVars, adapterVars, forwardVars, heartbeatVars>>

\* Lines 375-396: card_payload, with cardId = len(cards) + 1.
CardPayload(r) ==
    /\ running = r /\ reqs[r].pc = "call" /\ Call(r) = "card_payload"
    /\ reqs' = [reqs EXCEPT ![r].card = Len(cards) + 1, ![r].step = reqs[r].step + 1]
    /\ UNCHANGED <<running, lock>>
    /\ UNCHANGED <<transcript, appended, others, resets, cards, system_prompt, snap, compose,
                   audio_queue, logged>>
    /\ UNCHANGED <<handlerVars, adapterVars, forwardVars, heartbeatVars>>

\* A session manager served by MaxRequests handlers at a time.
SessionInit == config = Deployment("google", FALSE, FALSE) /\ Accepted

SessionNext ==
    \E r \in Requests :
        \/ RequestStart(r) \/ LockAcquire(r) \/ LockRelease(r)
        \/ get_system_prompt(r) \/ set_system_prompt(r) \/ register_card(r)
        \/ reset(r) \/ counts(r) \/ snapshot(r)
        \/ update_card(r) \/ register_transcript_fragment(r)
        \/ ComposeAwait(r) \/ ComposeReturn(r) \/ ComposeRaise(r) \/ CardPayload(r)

SessionSpec == SessionInit /\ [][SessionNext]_vars

\* ------------------------------------------ OpenAICardComposer.compose alone
\* The exceptions an attempt can end with: of the backend call, or of the code
\* that follows it inside the try block.
Exceptions == {"RuntimeError", "IndexError"}

\* cards.py 126-136: compose is called on a composer built with max_retries;
\* attempt = 0, and the loop is entered.
ComposeCall ==
    /\ compose.pc = "idle"
    /\ compose.attempt <= compose.max_retries
    /\ compose' = [compose EXCEPT !.pc = "try"]
    /\ UNCHANGED <<transcript, appended, others, resets, cards, system_prompt, lock, running,
                   reqs, snap, audio_queue, logged>>
    /\ UNCHANGED <<handlerVars, adapterVars, forwardVars, heartbeatVars>>

\* cards.py 137-162: the attempt succeeds and its result is returned.
ComposeOnceOk ==
    /\ compose.pc = "try"
    /\ compose' = [compose EXCEPT !.pc = "returned", !.calls = Append(@, "ok"),
                                  !.out = "result"]
    /\ UNCHANGED <<transcript, appended, others, resets, cards, system_prompt, lock, running,
                   reqs, snap, audio_queue, logged>>
    /\ UNCHANGED <<handlerVars, adapterVars, forwardVars, heartbeatVars>>

ComposeOnceFailRaisesFirst ==
    /\ compose.pc = "try"
    /\ \E exc \in Exceptions :
          LET calls == Append(compose.calls, exc) IN
          compose' = IF compose.attempt >= compose.max_retries
                     THEN [compose EXCEPT !.pc = "raised", !.calls = calls, !.out = calls[1]]
                     ELSE [compose EXCEPT !.pc = "sleep", !.calls = calls]
    /\ UNCHANGED <<transcript, appended, others, resets, cards, system_prompt, lock, running,
                   reqs, snap, audio_queue, logged>>
    /\ UNCHANGED <<handlerVars, adapterVars, forwardVars, heartbeatVars>>

\* cards.py 163-172: the attempt raises; the exception is raised again if the
\* retries are used up, else the back-off sleep is entered.
ComposeOnceFail ==
    /\ compose.pc = "try"
    /\ \E exc \in Exceptions :
          LET calls == Append(compose.calls, exc) IN
          compose' = IF compose.attempt >= compose.max_retries
                     THEN [compose EXCEPT !.pc = "raised", !.calls = calls, !.out = exc]
                     ELSE [compose EXCEPT !.pc = "sleep", !.calls = calls]
    /\ UNCHANGED <<transcript, appended, others, resets, cards, system_prompt, lock, running,
                   reqs, snap, audio_queue, logged>>
    /\ UNCHANGED <<handlerVars, adapterVars, forwardVars, heartbeatVars>>

\* cards.py 173-174 and 136: the sleep is over, attempt += 1, and the loop
\* condition holds again.
ComposeBackoff ==
    /\ compose.pc = "sleep"
    /\ compose.attempt + 1 <= compose.max_retries
    /\ compose' = [compose EXCEPT !.pc = "try", !.attempt = @ + 1]
    /\ UNCHANGED <<transcript, appended, others, resets, cards, system_prompt, lock, running,
                   reqs, snap, audio_queue, logged>>
    /\ UNCHANGED <<handlerVars, adapterVars, forwardVars, heartbeatVars>>

\* A composer built with any max_retries up to MaxRetries, not called yet.
ComposeInit ==
    /\ config = Deployment("google", FALSE, FALSE)
    /\ pc = "accepted" /\ exit_reason = "none" /\ adapter = "none" /\ audio_queue = <<>>
    /\ chunk_seq = 0 /\ ingest = NoIngest /\ pending = 0 /\ sentinels = 0
    /\ close_code = NoCode /\ client_state = "CONNECTED" /\ fwd = "idle" /\ apc = "idle"
    /\ chunk_index = 0 /\ phrase_index = 0 /\ engine_events = 0 /\ received = <<>>
    /\ greq = "idle" /\ requests = <<>> /\ gresults = <<>> /\ recog = NoAnswer
    /\ cur = NoEvent /\ emitted = <<>> /\ sent = <<>> /\ send_failed = {} /\ hb = "idle"
    /\ transcript = <<>> /\ appended = <<>> /\ others = 0 /\ resets = 0 /\ logged = {}
    /\ cards = <<>> /\ system_prompt = 0 /\ lock = 0 /\ running = 0
    /\ reqs = [r \in Requests |-> IdleRequest] /\ snap = NoSnapshot
    /\ \E k \in 0..MaxRetries : compose = [NoCompose EXCEPT !.max_retries = k]

ComposeNext == ComposeCall \/ ComposeOnceOk \/ ComposeOnceFail \/ ComposeBackoff

ComposeSpec == ComposeInit /\ [][ComposeNext]_vars

\* An attempt and a sleep come to an end.
ComposeFairSpec == ComposeSpec /\ WF_vars(ComposeNext)

\* ---------------------------------------------------- the ingest loop alone
\* Lines 551-572: one pass of the ingest loop, for every message receive() can
\* return; the message and the data_bytes made of it are kept in ingest.
Receive ==
    /\ pc = "receive"
    /\ \E message \in Messages :
          LET data == Data(message) IN
          IF data = None
          THEN /\ ingest' = [message |-> message, data_bytes |-> None]
               /\ UNCHANGED <<chunk_seq, audio_queue, pc, pending, logged>>
          ELSE /\ chunk_seq < MaxChunks
               /\ chunk_seq' = chunk_seq + 1
               /\ ingest' = [message |-> message, data_bytes |-> DataBytes(data)]
               /\ Log({"audio.chunk_received"})
               /\ IF Len(audio_queue) < QueueMaxSize
                  THEN /\ audio_queue' = Append(audio_queue, chunk_seq + 1)
                       /\ UNCHANGED <<pc, pending>>
                  ELSE /\ pc' = "put"
                       /\ pending' = chunk_seq + 1
                       /\ UNCHANGED audio_queue
    /\ UNCHANGED <<exit_reason, adapter, config, sentinels, close_code, client_state>>
    /\ UNCHANGED <<adapterVars, forwardVars, heartbeatVars, sessionVars>>

\* A connection served by a stub adapter whose client neither leaves nor fails.
IngestInit == config = Deployment("google", FALSE, FALSE) /\ Accepted

IngestNext == ConstructOk \/ Receive \/ PutResume \/ StubChunk \/ StubResume \/ SendOk

IngestSpec == IngestInit /\ [][IngestNext]_vars

\* ------------------------------------------------------------ the pipeline
\* The states of section 4.3 of the design.
Phase ==
    CASE pc = "accepted" -> "OPEN"
      [] pc \in {"receive", "put"} -> "STREAMING"
      [] pc = "closing" -> "ERRORED"
      [] pc \in {"td_put", "td_hb", "td_fwd"} -> "DRAINING"
      [] OTHER -> "CLOSED"

Streamed == adapter # "none"

Ids(seq) == [i \in 1..Len(seq) |-> seq[i].id]

IsFinal(ev) == ev.type = FINAL

SelfFragment(f) == f.conn = "self"

Increasing(ids) == \A i, j \in 1..Len(ids) : i < j => ids[i] < ids[j]

\* The send of event ev was made: it delivered the payload or raised RuntimeError.
SendMade(ev) ==
    \/ \E j \in 1..Len(sent) : sent[j] = Payload(ev)
    \/ ev.id \in send_failed

TimesRegistered(ev) == Cardinality({k \in 1..Len(appended) : appended[k] = Fragment(ev)})

\* C1: no event loss on shutdown.  When the handler has returned or raised, the
\* forward task is over, no event is in flight, and every event the adapter
\* yielded had its send made and, if FINAL, its fragment registered.
C1_NoEventLoss ==
    Phase = "CLOSED" /\ Streamed =>
        /\ fwd \in {"done", "failed"}
        /\ cur = NoEvent
        /\ \A i \in 1..Len(emitted) :
              /\ SendMade(emitted[i])
              /\ IsFinal(emitted[i]) => TimesRegistered(emitted[i]) >= 1

\* C1 witness: the offline recognizer flushed a FINAL after the sentinel and the
\* handler has returned with the queue drained.
C1_Witness ==
    /\ pc = "returned" /\ adapter = "vosk" /\ apc = "ended"
    /\ audio_queue = <<>> /\ Len(received) >= 1
    /\ Len(emitted) >= 2 /\ IsFinal(emitted[Len(emitted)])

\* C2: FINAL events are persisted exactly once each.  After drain the fragments
\* this connection registered are those of the FINAL events the adapter emitted,
\* one each and in that order, whether the send succeeded or raised; without a
\* reset they are this connection's part of the session transcript.
C2_FinalsPersistedOnce ==
    Phase = "CLOSED" /\ Streamed =>
        /\ appended = [i \in 1..Len(SelectSeq(emitted, IsFinal)) |->
                          Fragment(SelectSeq(emitted, IsFinal)[i])]
        /\ resets = 0 => SelectSeq(transcript, SelfFragment) = appended

\* C2 witness: two FINAL events, the first delivered and the second not.
C2_Witness ==
    /\ Phase = "CLOSED" /\ resets = 0
    /\ Len(SelectSeq(emitted, IsFinal)) = 2
    /\ Len(sent) = 1 /\ sent[1].is_final
    /\ send_failed = {2}

\* C3: PARTIAL events are never persisted.  Every fragment of the session
\* transcript, and every fragment ever registered, was made from a FINAL event.
C3_NoPartialPersisted ==
    /\ \A i \in 1..Len(transcript) : transcript[i].kind = FINAL
    /\ \A i \in 1..Len(appended) : appended[i].kind = FINAL

\* C3 witness: the send of a PARTIAL raised after a FINAL was registered, and the
\* transcript holds that fragment of this connection.
C3_Witness ==
    /\ \E i \in send_failed : emitted[i].type = PARTIAL
    /\ \E i \in 1..Len(transcript) : SelfFragment(transcript[i])

\* C4: when the send of a FINAL event raises, its fragment is registered exactly
\* once and the forward loop stops: the task is over, the failed event is the last
\* one pulled from the adapter, and no payload of a later event is sent.
C4_FailedFinalPersistedThenStop ==
    \A id \in send_failed :
        /\ fwd = "done"
        /\ cur = NoEvent
        /\ id = Len(emitted)
        /\ \A j \in 1..Len(sent) : sent[j].id < id
        /\ IsFinal(emitted[id]) =>
              /\ TimesRegistered(emitted[id]) = 1
              /\ appended[Len(appended)] = Fragment(emitted[id])

\* C4 witness: the send of a FINAL raised while chunks were still arriving; they
\* stay on the queue.
C4_Witness ==
    /\ \E id \in send_failed : IsFinal(emitted[id])
    /\ Phase = "STREAMING"
    /\ Len(audio_queue) >= 2

\* C5: ordering.  Payloads reach the client in the order the adapter yielded the
\* events, and this connection's fragments stand in the session transcript in the
\* order of their FINAL events, whatever other connections append in between.
C5_Ordering ==
    /\ \A j \in 1..Len(sent) : sent[j] = Payload(emitted[j])
    /\ Increasing(Ids(SelectSeq(transcript, SelfFragment)))
    /\ Increasing(Ids(appended))

\* C5 witness: another connection's fragment lies between two fragments of this one.
C5_Witness ==
    /\ Len(transcript) = 3
    /\ SelfFragment(transcript[1]) /\ ~SelfFragment(transcript[2])
    /\ SelfFragment(transcript[3])
    /\ Len(sent) = 2

\* C6: exactly one sentinel per connection, enqueued unconditionally during
\* teardown.  Once the finally block is entered the None is put on the queue,
\* whatever the queue holds and wherever the forward loop is, and never twice.
C6_SentinelAlwaysEnqueued ==
    /\ [](sentinels <= 1)
    /\ (Phase = "DRAINING") ~> (sentinels = 1)

\* C7: teardown runs on every exit of the ingest loop, in the order sentinel,
\* heartbeat cancelled and awaited, forward task awaited; the handler is not over
\* before the forward task is, and an exception of the forward task does not
\* change how the handler ends.
C7_TeardownOrder ==
    /\ exit_reason \in {"disconnect", "error"} =>
          pc \in {"closing", "td_put", "td_hb", "td_fwd", "returned", "raised"}
    /\ pc \in {"receive", "put", "closing", "td_put"} =>
          sentinels = 0 /\ hb # "cancelled"
    /\ pc = "td_hb" => sentinels = 1
    /\ pc = "td_fwd" => sentinels = 1 /\ hb \in {"done", "cancelled"}
    /\ Phase = "CLOSED" /\ Streamed =>
          /\ sentinels = 1
          /\ hb \in {"done", "cancelled"}
          /\ fwd \in {"done", "failed"}
          /\ fwd = "failed" => "stt.error" \in logged
          /\ pc = "returned" <=> exit_reason = "disconnect"

\* C7 witness: the adapter failed, the heartbeat was cancelled, and the handler
\* returned all the same.
C7_Witness ==
    /\ pc = "returned" /\ fwd = "failed" /\ hb = "cancelled" /\ chunk_seq >= 1

\* C8: a client disconnect is left gracefully.  The ingest loop is left with
\* reason disconnect, logged as ws.close; from then on the connection is DRAINING
\* or CLOSED, no close code is sent, no error is logged for the ingest loop, and
\* the handler can only return, not raise.
C8_GracefulDisconnect ==
    exit_reason = "disconnect" =>
        /\ "ws.close" \in logged
        /\ "ws.error" \notin logged
        /\ close_code = NoCode
        /\ Phase \in {"DRAINING", "CLOSED"}
        /\ pc # "raised"

\* C8 witness: the client disconnected after sending chunks and the handler returned.
C8_Witness ==
    /\ exit_reason = "disconnect" /\ pc = "returned"
    /\ chunk_seq >= 2 /\ fwd = "done" /\ Len(sent) >= 1

\* C9: a read error other than a disconnect.  The handler logs ws.error, sends the
\* close with code 1011 before the teardown starts, runs the teardown, and can
\* only end by raising.
C9_ErrorClose ==
    exit_reason = "error" =>
        /\ "ws.error" \in logged
        /\ "ws.close" \notin logged
        /\ pc # "closing" => close_code = InternalError
        /\ pc # "returned"
        /\ pc = "raised" =>
              sentinels = 1 /\ hb \in {"done", "cancelled"} /\ fwd \in {"done", "failed"}

\* C9 witness: the handler raised after an ingest error with the close sent.
C9_Witness ==
    /\ exit_reason = "error" /\ pc = "raised" /\ close_code = InternalError
    /\ chunk_seq >= 1

\* C10: a failure of the adapter in mid-stream does not stall the connection:
\* after it the connection proceeds to DRAINING, however many chunks the client
\* goes on sending.
C10_AdapterFailureDrains ==
    (fwd = "failed") ~> (Phase \in {"DRAINING", "CLOSED"})

\* ------------------------------------------------------------- the queue
IsChunk(item) == item # Sentinel

\* The chunks the ingest loop has put on the queue so far, in order: chunk k of
\* the connection is the number k.
Enqueued == [i \in 1..(IF pc = "put" THEN chunk_seq - 1 ELSE chunk_seq) |-> i]

\* queue_stream has read the sentinel: it was put, and is no longer on the queue.
SentinelRead == sentinels = 1 /\ audio_queue = <<>>

\* The chunk sequence of the adapter is over.
StreamOver ==
    IF adapter = "google" THEN greq = "ended" ELSE apc \in {"at_last", "ended"}

\* C11: back-pressure.  The queue never holds more than 8 items; a frame read
\* while it holds 8 suspends the put, and while the put is suspended no further
\* frame is read; the put can complete exactly when a get has freed a slot, and
\* it then appends the chunk it held.
C11_BackPressure ==
    /\ [](Len(audio_queue) <= QueueMaxSize)
    /\ [](pc = "put" => (ENABLED PutResume <=> Len(audio_queue) < QueueMaxSize))
    /\ [][/\ chunk_seq' # chunk_seq =>
               /\ pc = "receive"
               /\ IF Len(audio_queue) = QueueMaxSize
                  THEN pc' = "put" /\ pending' = chunk_seq' /\ audio_queue' = audio_queue
                  ELSE pc' = "receive" /\ audio_queue' = Append(audio_queue, chunk_seq')
          /\ pc = "put" =>
               /\ chunk_seq' = chunk_seq
               /\ pc' = "put" \/ (pc' = "receive" /\ audio_queue' = Append(audio_queue, pending))
         ]_vars

\* C11 witness: the put of a chunk is suspended and a get has just freed a slot.
C11_Witness ==
    /\ pc = "put" /\ pending = chunk_seq
    /\ Len(audio_queue) = QueueMaxSize - 1
    /\ Len(received) >= 1

\* C12: no chunk is lost, duplicated or reordered between ingest and adapter.
\* What the adapter has received followed by the chunks still on the queue is
\* what the ingest loop enqueued; once the sentinel has been read the adapter
\* has received all of it.
C12_ChunksTransferred ==
    /\ received \o SelectSeq(audio_queue, IsChunk) = Enqueued
    /\ SentinelRead => received = Enqueued /\ Len(received) = chunk_seq

\* C12 witness: the Google request stream took more chunks than the queue holds
\* and then the sentinel.
C12_Witness ==
    /\ SentinelRead /\ adapter = "google"
    /\ Len(received) > QueueMaxSize

\* C13: once queue_stream has read the sentinel the chunk sequence is over: the
\* adapter waits for no further chunk, nothing more is received or taken from
\* the queue, and the sentinel is never handed to the adapter as a chunk.
C13_SentinelEndsStream ==
    /\ [](\A i \in 1..Len(received) : received[i] # Sentinel)
    /\ [](SentinelRead => StreamOver)
    /\ [][SentinelRead => received' = received /\ audio_queue' = audio_queue]_vars

\* C13 witness: the stub adapter took chunks, then the sentinel, and ended.
C13_Witness ==
    /\ SentinelRead /\ adapter = "stub" /\ apc = "ended"
    /\ Len(received) >= 2

\* ---------------------------------------------------------- the heartbeat
\* C14: a failure in the heartbeat loop is not fatal.  The loop ends normally
\* with the failure logged; the step that fails changes nothing of the ingest
\* loop, the forward loop, the queue or the session; awaiting the task in the
\* teardown goes on to the forward task; the handler raises only for an error of
\* its own ingest loop.
C14_HeartbeatFailureNotFatal ==
    /\ [](hb \in {"idle", "created", "done", "cancelled"})
    /\ [](hb = "done" <=> "ws.heartbeat_error" \in logged)
    /\ [](hb = "done" =>
            /\ pc = "raised" => exit_reason = "error"
            /\ "ws.error" \in logged => exit_reason = "error")
    /\ [][/\ hb' # hb /\ hb' \notin {"created", "cancelled"} =>
               UNCHANGED <<handlerVars, adapterVars, forwardVars, sessionVars, audio_queue>>
          /\ pc = "td_hb" /\ pc' # pc => pc' = "td_fwd"
         ]_vars

\* C14 witness: the heartbeat failed, and the connection streamed, delivered two
\* payloads and returned.
C14_Witness ==
    /\ "ws.heartbeat_error" \in logged /\ hb = "done"
    /\ pc = "returned" /\ fwd = "done"
    /\ chunk_seq >= 3 /\ Len(sent) >= 2

\* C15: after each interval the heartbeat loop sends a ping when the connection
\* is CONNECTED and stops the first time it is not; so a heartbeat loop that has
\* stopped of itself has seen a state other than CONNECTED.
C15_HeartbeatUntilDisconnected ==
    hb = "done" => client_state # "CONNECTED"

\* ------------------------------------------------------ adapter construction
Supported(engine) == Lower(engine) \in {"google", "vosk"}

\* C16: an engine name that is neither google nor vosk is a ValueError at
\* construction whatever the environment, never the stub; the handler then
\* closes with 1011 and returns, with no queue, no task and no fragment of its own.
C16_UnsupportedEngine ==
    ~Supported(config.engine) =>
        /\ Construct(config) = "ValueError"
        /\ adapter = "none" /\ fwd = "idle" /\ hb = "idle" /\ apc = "idle"
        /\ audio_queue = <<>> /\ appended = <<>>
        /\ pc \in {"accepted", "returned"}
        /\ pc = "accepted" => close_code = NoCode
        /\ pc = "returned" =>
              close_code = InternalError /\ "stt.error" \in logged /\ exit_reason = "config"

\* C16 witness: an unsupported engine with the stub forced was refused, while
\* another connection appended to the session log.
C16_Witness ==
    /\ config.engine = "whisper" /\ config.force_stub
    /\ pc = "returned" /\ close_code = InternalError
    /\ Len(transcript) = 1

\* C17, as stated: with the force-stub flag set, construction returns the stub
\* whatever the engine name and the environment.
C17_ForceStubAlways ==
    config.force_stub /\ pc # "accepted" => adapter = "stub" /\ pc = "receive"

\* C17, amended: with the force-stub flag set and the engine name google or vosk
\* (in any case), construction returns the stub whatever the environment.
C17_ForceStubSupported ==
    config.force_stub /\ Supported(config.engine) =>
        /\ Construct(config) = "stub"
        /\ pc # "accepted" => adapter = "stub" /\ pc = "receive"

\* C17 witness: Vosk is installed and configured, the flag is set, the stub runs.
C17_Witness ==
    /\ config.force_stub /\ config.engine = "Vosk"
    /\ config.vosk_ok /\ config.vosk_ctor_ok
    /\ adapter = "stub" /\ pc = "receive"

\* C18: fallback to stub.  For google and vosk, when the dependency is missing or
\* the adapter's constructor raises, the stub is returned: no exception leaves
\* the handler and the connection streams.
C18_FallbackToStub ==
    Supported(config.engine) /\ pc # "accepted" =>
        /\ pc = "receive"
        /\ Lower(config.engine) = "google" /\ ~(config.speech_ok /\ config.google_ctor_ok) =>
              adapter = "stub"
        /\ Lower(config.engine) = "vosk" /\ ~(config.vosk_ok /\ config.vosk_ctor_ok) =>
              adapter = "stub"

\* ---------------------------------------------------------- the stub adapter
\* What a fresh stub adapter emits for 9 chunks: text is <<phrase, words>>.
NineChunkEvents ==
    <<[type |-> PARTIAL, id |-> 1, phrase |-> 1, words |-> 1,
       conf |-> StubPartialConfidence, chunks |-> 3, completed |-> FALSE],
      [type |-> PARTIAL, id |-> 2, phrase |-> 1, words |-> 2,
       conf |-> StubPartialConfidence, chunks |-> 6, completed |-> FALSE],
      [type |-> PARTIAL, id |-> 3, phrase |-> 1, words |-> 3,
       conf |-> StubPartialConfidence, chunks |-> 9, completed |-> FALSE],
      [type |-> FINAL, id |-> 4, phrase |-> 1, words |-> PhraseWords[1],
       conf |-> StubFinalConfidence, chunks |-> 9, completed |-> TRUE]>>

\* C19: a fresh stub adapter given exactly 9 chunks emits 3 PARTIAL events, at
\* chunks 3, 6 and 9, then 1 FINAL at chunk 9 whose text is the whole first
\* phrase, and its phrase cursor is then at the second phrase.
C19_NineChunks ==
    /\ Len(received) < FinalEvery => \A i \in 1..Len(emitted) : emitted[i].type = PARTIAL
    /\ apc = "ended" /\ Len(received) = FinalEvery =>
          emitted = NineChunkEvents /\ phrase_index = 1

\* C19 witness: the run over 9 chunks has ended with its four events.
C19_Witness ==
    /\ apc = "ended" /\ fwd = "done"
    /\ Len(received) = FinalEvery /\ Len(emitted) = 4

\* The phrase a chunk belongs to, and the chunk's place in the 9 chunks of it.
PhraseOf(ci) == (((ci - 1) \div FinalEvery) % NumPhrases) + 1
PlaceOf(ci) == ((ci - 1) % FinalEvery) + 1

\* C20: every phrase of the cycle is built word by word.  The PARTIAL of each 3rd
\* chunk has one more word of the current phrase than the one before, starting
\* from one word after each FINAL; the FINAL of each 9th chunk has the whole
\* current phrase, and the phrases follow each other in a cycle.
C20_WordByWord ==
    \A i \in 1..Len(emitted) :
        LET ev == emitted[i] IN
        /\ ev.phrase = PhraseOf(ev.chunks)
        /\ ev.type = PARTIAL =>
              ev.words = Min(PhraseWords[ev.phrase], PlaceOf(ev.chunks) \div PartialEvery)
        /\ ev.type = FINAL =>
              PlaceOf(ev.chunks) = FinalEvery /\ ev.words = PhraseWords[ev.phrase]

IsPartial(ev) == ev.type = PARTIAL

\* C21: the stub adapter summarizes at the end of the stream.  When a connection
\* has sent n >= 1 chunks and disconnected, the last event of the adapter is a
\* FINAL whose raw.chunks is n, and its fragment is the last entry of the session
\* transcript (nobody else having written to it).
C21_EndOfStreamFinal ==
    /\ pc = "returned" /\ adapter = "stub" /\ chunk_seq >= 1
    /\ fwd = "done" /\ send_failed = {} /\ others = 0 /\ resets = 0
    =>
    /\ emitted # <<>>
    /\ IsFinal(emitted[Len(emitted)]) /\ emitted[Len(emitted)].chunks = chunk_seq
    /\ transcript # <<>>
    /\ transcript[Len(transcript)].chunks = chunk_seq

\* C22: the stub adapter emits one PARTIAL for every chunk it consumes, the i-th
\* with raw.chunk_index = i.
C22_PartialPerChunk ==
    adapter = "stub" /\ apc = "get" =>
        /\ Len(SelectSeq(emitted, IsPartial)) = chunk_index
        /\ \A i \in 1..Len(SelectSeq(emitted, IsPartial)) :
              SelectSeq(emitted, IsPartial)[i].chunks = i

\* -------------------------------------------------------- transcript events
\* C29: completed_at is set on an event if and only if the event is FINAL, for
\* the events of the stub, the Google and the Vosk adapter.
C29_CompletedIffFinal ==
    /\ \A i \in 1..Len(emitted) : emitted[i].completed <=> emitted[i].type = FINAL
    /\ cur.completed <=> cur.type = FINAL

\* C29 witness: the Google adapter has emitted a PARTIAL and then a FINAL.
C29_Witness ==
    /\ adapter = "google" /\ Len(emitted) = 2
    /\ emitted[1].type = PARTIAL /\ ~emitted[1].completed
    /\ emitted[2].type = FINAL /\ emitted[2].completed

\* -------------------------------------------------------- the Google adapter
NoAlternative(result) == result.alts = <<>>

\* C23: event mapping of the Google adapter.  Visiting the results of a response
\* in order, results without an alternative are passed over, and the first
\* result with one yields exactly one event made from its first alternative:
\* FINAL with that alternative's confidence if is_final, else PARTIAL without
\* confidence.  Every result with an alternative accounts for one event.
C23_GoogleEventMapping ==
    /\ [](adapter = "google" =>
            Len(emitted) + Alternatives(gresults) = engine_events)
    /\ [][/\ adapter = "google" /\ fwd = "next" /\ apc \in {"results", "at_yield"}
          /\ <<apc, gresults, emitted>>' # <<apc, gresults, emitted>>
          =>
          IF \A j \in 1..Len(gresults) : NoAlternative(gresults[j])
          THEN emitted' = emitted /\ gresults' = <<>> /\ apc' = "await_response"
          ELSE \E i \in 1..Len(gresults) :
                  /\ ~NoAlternative(gresults[i])
                  /\ \A j \in 1..(i - 1) : NoAlternative(gresults[j])
                  /\ gresults' = SubSeq(gresults, i + 1, Len(gresults))
                  /\ Len(emitted') = Len(emitted) + 1
                  /\ SubSeq(emitted', 1, Len(emitted)) = emitted
                  /\ cur' = emitted'[Len(emitted')]
                  /\ cur'.words = gresults[i].alts[1].transcript
                  /\ IF gresults[i].is_final
                     THEN cur'.type = FINAL /\ cur'.conf = gresults[i].alts[1].confidence
                     ELSE cur'.type = PARTIAL /\ cur'.conf = NoConf
         ]_vars

\* C23 witness: a PARTIAL and then a FINAL were made from results with two
\* alternatives each; the FINAL is being sent.
C23_Witness ==
    /\ adapter = "google" /\ apc = "at_yield" /\ fwd = "send"
    /\ Len(emitted) = 2 /\ emitted[1].type = PARTIAL
    /\ cur.type = FINAL /\ cur.conf = 80 /\ cur.words = 1

\* C24: request ordering of the Google adapter.  The requests of a run are one
\* configuration frame, first, then one audio frame for each chunk received, in
\* order; the request stream has ended exactly when the sentinel has been read.
C24_RequestOrdering ==
    adapter = "google" =>
        /\ greq \in {"idle", "config"} => requests = <<>> /\ received = <<>>
        /\ greq \in {"audio", "ended"} =>
              /\ Len(requests) = 1 + Len(received)
              /\ requests[1].kind = "config"
              /\ \A i \in 1..Len(received) :
                    requests[i + 1].kind = "audio" /\ requests[i + 1].chunk = received[i]
        /\ greq = "ended" <=> SentinelRead

\* C24 witness: the request stream ended after the configuration and three chunks.
C24_Witness ==
    /\ adapter = "google" /\ greq = "ended"
    /\ Len(requests) = 4 /\ received = <<1, 2, 3>>

\* C25: the configuration frame is the configuration built for the sample rate
\* the adapter was constructed with.
C25_SampleRateSelected ==
    adapter = "google" /\ requests # <<>> =>
        requests[1].config = GoogleConfigs[config.sample_rate]

Last(seq) == seq[Len(seq)]

\* The step appends exactly one event to the events of the adapter.
OneMoreEvent == Len(emitted') = Len(emitted) + 1 /\ SubSeq(emitted', 1, Len(emitted)) = emitted

\* C26: the Vosk adapter, chunk by chunk.  A chunk fed to the recognizer is
\* answered by exactly one poll: Result if the recognizer accepted it (an
\* utterance is complete), PartialResult if not.  The chunk gives one event if
\* the answer has text, FINAL for Result, PARTIAL without confidence for
\* PartialResult, and no event if it has none; so a chunk gives at most one
\* event, and no event of the adapter has empty text.
C26_VoskPerChunk ==
    /\ [](adapter = "vosk" => \A i \in 1..Len(emitted) : emitted[i].words # 0)
    /\ [][/\ adapter = "vosk" /\ Len(received') = Len(received) + 1 /\ apc' # "raised"
          =>
          /\ recog'.call \in {"Result", "PartialResult"}
          /\ IF recog'.text = 0
             THEN emitted' = emitted /\ apc' = "get"
             ELSE /\ OneMoreEvent
                  /\ cur' = Last(emitted') /\ cur'.words = recog'.text
                  /\ IF recog'.call = "Result"
                     THEN cur'.type = FINAL
                     ELSE cur'.type = PARTIAL /\ cur'.conf = NoConf
         ]_vars

\* C26 witness: three chunks were fed: the first gave nothing, the second a
\* PARTIAL, the third, accepted, a FINAL that is being sent.
C26_Witness ==
    /\ adapter = "vosk" /\ Len(received) = 3 /\ Len(emitted) = 2
    /\ emitted[1].type = PARTIAL /\ emitted[1].conf = NoConf
    /\ recog.call = "Result" /\ recog.text = 1 /\ cur.type = FINAL /\ fwd = "send"

\* C27: the Vosk adapter at the end of the stream.  FinalResult is read exactly
\* when the sentinel has been read, once, after any number of chunks; with text
\* it becomes the last event, a FINAL, without text no event is made; after it
\* nothing more is polled or emitted and the generator only ends.
C27_VoskEndOfStream ==
    /\ [](adapter = "vosk" =>
            /\ (recog.call = "FinalResult") = (apc \in {"at_last", "ended"})
            /\ recog.call = "FinalResult" => SentinelRead
            /\ recog.call = "FinalResult" /\ recog.text = 1 =>
                  /\ emitted # <<>>
                  /\ Last(emitted).type = FINAL /\ Last(emitted).words = 1)
    /\ [][/\ adapter = "vosk" /\ recog.call # "FinalResult" /\ recog'.call = "FinalResult"
          =>
          IF recog'.text = 1
          THEN OneMoreEvent /\ cur' = Last(emitted') /\ cur'.type = FINAL /\ apc' = "at_last"
          ELSE emitted' = emitted /\ apc' = "ended"
         ]_vars
    /\ [][/\ adapter = "vosk" /\ recog.call = "FinalResult"
          =>
          recog' = recog /\ emitted' = emitted /\ apc' \in {apc, "ended"}
         ]_vars

\* C27 witness: the stream ended before any chunk, the flushed result had text
\* and its FINAL, the only event, was sent; the generator has ended.
C27_Witness ==
    /\ adapter = "vosk" /\ received = <<>> /\ recog.call = "FinalResult" /\ recog.text = 1
    /\ apc = "ended" /\ Len(emitted) = 1 /\ Len(sent) = 1 /\ sent[1].is_final

RECURSIVE SumAt(_, _)
SumAt(ws, S) ==
    IF S = {} THEN 0 ELSE LET i == CHOOSE i \in S : TRUE IN ws[i] + SumAt(ws, S \ {i})

\* C28: the confidence of a Vosk FINAL.  For the word list of the answer the
\* FINAL was made from: if no word carries a confidence (the empty list
\* included) the confidence is absent; otherwise it is present and, times the
\* number of the words that carry one, it is the sum of their confidences.
C28_AverageConfidence ==
    adapter = "vosk" /\ cur.type = FINAL =>
        LET carriers == {i \in 1..Len(recog.words) : recog.words[i] # NoConf}
        IN  IF carriers = {}
            THEN cur.conf = NoConf
            ELSE /\ cur.conf # NoConf
                 /\ cur.conf * Cardinality(carriers) = SumAt(recog.words, carriers)

\* C28 witness: a FINAL made from three words, of confidence 0, none and 0.96:
\* its confidence is 0.48.
C28_Witness ==
    /\ adapter = "vosk" /\ cur.type = FINAL
    /\ recog.words = <<0, NoConf, 96>> /\ cur.conf = 48

C34_NoErrorDetail ==
    /\ close_code \in {NoCode, InternalError}
    /\ Len(sent) <= Len(emitted)
    /\ \A j \in 1..Len(sent) :
          sent[j].type = "transcription" /\ sent[j] = Payload(emitted[j])

\* C34 witness: the adapter failed after a message had been sent, then the
\* ingest loop failed and the close was sent: both errors are in the log only.
C34_Witness ==
    /\ "stt.error" \in logged /\ "ws.error" \in logged
    /\ fwd = "failed" /\ close_code = InternalError /\ Len(sent) = 1

\* C36: a put on the queue is never stuck.  A put of the ingest loop, and the
\* put of the sentinel in the teardown, is eventually over.
C36_PutCompletes ==
    /\ (pc = "put") ~> (pc # "put")
    /\ (pc = "td_put") ~> (pc # "td_put")

\* C37: the sentinel is the last item.  A sentinel on the queue is its last
\* item, and once the sentinel has been put no chunk is received or put: the
\* queue only loses items.
C37_SentinelLast ==
    /\ [](\A i \in 1..Len(audio_queue) :
             audio_queue[i] = Sentinel => i = Len(audio_queue))
    /\ [](sentinels >= 1 => pending = 0 /\ pc \notin {"receive", "put"})
    /\ [][sentinels >= 1 =>
             /\ chunk_seq' = chunk_seq
             /\ \/ audio_queue' = audio_queue
                \/ audio_queue # <<>> /\ audio_queue' = QueueRest(audio_queue)]_vars

\* C37 witness: the ingest loop failed with chunks still on the queue; the
\* sentinel stands behind them.
C37_Witness ==
    /\ exit_reason = "error" /\ sentinels = 1
    /\ Len(audio_queue) >= 3 /\ Last(audio_queue) = Sentinel
    /\ IsChunk(audio_queue[1])

\* C38: no task outlives its connection.  When the handler is over, the tasks
\* it created are over (a handler that ended before creating them has none), no
\* event is being sent, and from then on the connection delivers no message,
\* makes no send and registers no fragment.
C38_NoTaskOutlives ==
    /\ [](Phase = "CLOSED" =>
            /\ cur = NoEvent
            /\ IF Streamed
               THEN hb \in {"done", "cancelled"} /\ fwd \in {"done", "failed"}
               ELSE hb = "idle" /\ fwd = "idle")
    /\ [][Phase = "CLOSED" =>
             /\ <<hb, fwd, emitted>>' = <<hb, fwd, emitted>>
             /\ <<sent, send_failed, appended>>' = <<sent, send_failed, appended>>]_vars

\* C38 witness: the handler returned after the forward task had sent two
\* messages and registered a fragment, and the heartbeat had been cancelled.
C38_Witness ==
    /\ pc = "returned" /\ hb = "cancelled" /\ fwd = "done"
    /\ Len(sent) = 2 /\ appended # <<>>

\* ------------------------------------------------------- ingest accounting
NonEmpty(x) == x # None /\ x.val # <<>>

\* The chunks that have been put on the queue: those still on it and those the
\* adapter has taken.
ChunksPut == Len(received) + Cardinality({i \in 1..Len(audio_queue) : IsChunk(audio_queue[i])})

\* The step is a pass of the ingest loop that counts the message and puts one
\* chunk (or suspends in the put of it).
Counted ==
    /\ chunk_seq' = chunk_seq + 1
    /\ \/ audio_queue' = Append(audio_queue, chunk_seq') /\ pc' = "receive" /\ pending' = 0
       \/ audio_queue' = audio_queue /\ pc' = "put" /\ pending' = chunk_seq'

\* The step is a pass of the ingest loop that skips the message.
Skipped ==
    /\ chunk_seq' = chunk_seq /\ audio_queue' = audio_queue
    /\ pc' = "receive" /\ pending' = 0 /\ ingest'.data_bytes = None

Received == pc = "receive" /\ (ingest' # ingest \/ chunk_seq' # chunk_seq)

\* C39 as stated: chunk_seq is the number of chunks put (one of them possibly
\* in a suspended put); a message with non-empty bytes or non-empty text is
\* counted and put once, text as its UTF-8 bytes; any other message, one with
\* an empty payload included, is skipped.
C39_IngestAccounting ==
    /\ [](chunk_seq = ChunksPut + (IF pc = "put" THEN 1 ELSE 0))
    /\ [][Received =>
            LET m == ingest'.message IN
            IF NonEmpty(m.bytes) \/ NonEmpty(m.text) THEN Counted ELSE Skipped]_vars

\* C39 amended: as above, but an empty text frame is not skipped: it is counted
\* and put as an empty chunk; skipped are the empty binary frame and the message
\* with neither bytes nor text.
C39_IngestAccountingEmptyText ==
    /\ [](chunk_seq = ChunksPut + (IF pc = "put" THEN 1 ELSE 0))
    /\ [][Received =>
            LET m == ingest'.message IN
            IF NonEmpty(m.bytes) \/ m.text # None
            THEN /\ Counted
                 /\ ingest'.data_bytes =
                       IF NonEmpty(m.bytes) THEN m.bytes ELSE Bytes(Encode(m.text.val))
            ELSE Skipped]_vars

\* C39 witness: the third chunk came from the text frame "aé" and is the
\* bytes 97, 195, 169.
C39_Witness ==
    /\ chunk_seq = 3 /\ ingest.message.text = Text(<<97, 233>>)
    /\ ingest.data_bytes = Bytes(<<97, 195, 169>>)
    /\ Len(audio_queue) + Len(received) = 3

\* ------------------------------------------------------------ the session
IsPrefix(a, b) == Len(a) <= Len(b) /\ SubSeq(b, 1, Len(a)) = a

\* C31: the transcript log is append-only between resets.  A step that is not
\* a reset leaves the log as it is or appends one fragment to it, whatever the
\* operation (fragment append, card create or update, system-prompt update,
\* snapshot, counts); a reset empties it; so a snapshot is a prefix of the log,
\* and of every later snapshot, until the next reset.
C31_AppendOnly ==
    /\ [](snap.taken /\ snap.epoch = resets => IsPrefix(snap.transcript, transcript))
    /\ [][IF resets' # resets
          THEN transcript' = <<>>
          ELSE \/ transcript' = transcript
               \/ /\ Len(transcript') = Len(transcript) + 1
                  /\ IsPrefix(transcript, transcript')
                  /\ \E r \in Requests : Locked(r, "register_transcript_fragment")
         ]_vars
    /\ [][snap.taken /\ snap'.taken /\ snap.epoch = snap'.epoch =>
             IsPrefix(snap.transcript, snap'.transcript)]_vars

\* C31 witness: a snapshot of one fragment was taken, a card was created and
\* updated and the system prompt set, and a second fragment was appended.
C31_Witness ==
    /\ snap.taken /\ Len(snap.transcript) = 1 /\ Len(transcript) = 2 /\ resets = 0
    /\ cards # <<>> /\ cards[1].prompt = 1 /\ system_prompt = 1

\* The requests that are inside async with self.lock.
Holders == {r \in Requests : reqs[r].pc \in {"locked", "release"}}

\* C32: the session lock.  At most one request is inside the lock and it is
\* the one the lock records; whoever holds the lock is running, so nothing is
\* awaited under it (a request awaiting compose holds no lock); and a request
\* that comes to take the lock finds it free.
C32_LockNotHeldAcrossIO ==
    /\ Cardinality(Holders) <= 1
    /\ \A r \in Requests : r \in Holders <=> lock = r
    /\ lock # 0 => running = lock
    /\ \A r \in Requests : reqs[r].pc = "awaiting" => lock # r /\ running # r
    /\ running # 0 /\ reqs[running].pc = "call" => lock = 0

\* C32 witness: one request is suspended in compose while another is inside
\* the lock registering its card.
C32_Witness ==
    /\ reqs[1].pc = "awaiting"
    /\ lock = 2 /\ running = 2 /\ reqs[2].pc = "locked" /\ Call(2) = "register_card"

\* C33: session reset clears the whole session.  The reset empties the log and
\* the card list, whatever they held; the handler goes from reset to counts
\* without being suspended, so the counts it returns are cards = 0 and
\* transcripts = 0.
C33_ResetClears ==
    /\ [][resets' # resets => transcript' = <<>> /\ cards' = <<>>]_vars
    /\ [](\A r \in Requests :
             reqs[r].op = "reset_session" /\ reqs[r].step = 2 =>
                /\ running = r /\ transcript = <<>> /\ cards = <<>>
                /\ reqs[r].pc = "release" =>
                      reqs[r].result = <<[cards |-> 0, transcripts |-> 0]>>)

\* C33 witness: a session that held two cards and two fragments (as the last
\* snapshot shows) was reset, and the handler has its counts.
C33_Witness ==
    /\ snap.taken /\ Len(snap.cards) = 2 /\ Len(snap.transcript) = 2
    /\ \E r \in Requests :
          /\ reqs[r].op = "reset_session" /\ reqs[r].pc = "release" /\ reqs[r].step = 2
          /\ reqs[r].result = <<[cards |-> 0, transcripts |-> 0]>>

\* C40: card identifiers are unique.  The i-th card of the session has cardId i,
\* however the create-card requests interleave.
C40_CardIdsUnique ==
    /\ \A i \in 1..Len(cards) : cards[i].cardId = i
    /\ \A i, j \in 1..Len(cards) : i # j => cards[i].cardId # cards[j].cardId

\* C40 witness: two create-card requests were suspended in compose together;
\* the one that started first registered second, the card with cardId 2.
C40_Witness ==
    /\ Len(cards) = 2
    /\ reqs[1].op = "create_card" /\ reqs[1].pc = "release" /\ reqs[1].card = 2
    /\ reqs[2] = IdleRequest

\* ------------------------------------------------------------ the composer
Failed(outcome) == outcome \in Exceptions

\* C35: the retries of compose.  With max_retries = k at most k+1 attempts are
\* made; compose returns with the first attempt that succeeds, and makes no
\* attempt after it; it raises after k+1 failed attempts, the exception of the
\* last one; nothing follows a return or a raise; and every call ends in one.
C35_ComposeRetries ==
    /\ [](Len(compose.calls) <= compose.max_retries + 1)
    /\ [](compose.pc = "returned" <=>
             compose.calls # <<>> /\ Last(compose.calls) = "ok")
    /\ [](\A i \in 1..(Len(compose.calls) - 1) : Failed(compose.calls[i]))
    /\ [](compose.pc = "returned" => compose.out = "result")
    /\ [](compose.pc = "raised" =>
             /\ Len(compose.calls) = compose.max_retries + 1
             /\ \A i \in 1..Len(compose.calls) : Failed(compose.calls[i])
             /\ compose.out = Last(compose.calls))
    /\ [][compose.pc \in {"returned", "raised"} => compose' = compose]_vars
    /\ <>(compose.pc \in {"returned", "raised"})

\* C35 witness: with max_retries = 2, three attempts failed and the exception
\* of the third, not that of the first, was raised.
C35_Witness ==
    /\ compose.max_retries = 2 /\ compose.pc = "raised"
    /\ compose.calls = <<"IndexError", "IndexError", "RuntimeError">>
    /\ compose.out = "RuntimeError"

====
